---- MODULE Spec2Model ----
(***************************************************************************)
(* A model of the Orbiter numerical core (src/src/orbiter/core):           *)
(*   propagation/TheKeplerProblem.py   stumpff_C, stumpff_S,               *)
(*                                     universal_kepler                    *)
(*   time/UniversalTimeOfFlight.py     universal_time_of_flight            *)
(*   time/TimeOfFlightToPosition.py    time_of_flight_to_position          *)
(*   states.py                         StateRV.as_coe, ClassicalOE.as_rv   *)
(*   orbit-determination/Gauss-Problem.py  GaussProblem                    *)
(*                                                                         *)
(* Arithmetic.  The code computes in IEEE-754 doubles through numpy, so a  *)
(* division by zero yields an infinity or a NaN (never an exception) and   *)
(* every comparison with a NaN is false.  The model keeps exactly that     *)
(* behaviour and replaces the 53-bit mantissa by a decimal fixed point: a  *)
(* number is an integer n standing for n / Scale, or one of the three      *)
(* special values NaN, PInf, NInf.  The library functions of numpy (sqrt,  *)
(* cos, sin, cosh, sinh, log, arccos, arctan, tan, arctanh) are computed   *)
(* by range reduction and power series on that fixed point, so they are    *)
(* rounded results as numpy's are, at a coarser resolution.                *)
(*                                                                         *)
(* Units.  The code is unit agnostic; the model's inputs are in units      *)
(* where distances are about 1 and mu of the default body is 4.            *)
(***************************************************************************)
EXTENDS Integers, Sequences, FiniteSets, TLC

\* Resolution of the fixed point: a finite number n stands for n / Scale.
Scale == 10000

(***************************************************************************)
(* IEEE special values.  They are encoded as integers outside the range of *)
(* every finite number the model computes, PInf above and NInf below all   *)
(* of them, so that the order of the integers is the order of the doubles  *)
(* on everything but NaN.                                                  *)
(***************************************************************************)
PInf == 2^30
NInf == -(2^30)
NaN  == 2^30 + 2^29

IsNaN(a) == a = NaN
IsInf(a) == a = PInf \/ a = NInf
IsFinite(a) == ~IsNaN(a) /\ ~IsInf(a)

\* n / d as a fixed-point number (n, d small integers, d > 0), rounded to nearest.
Fx(n, d) == IF n >= 0 THEN (2 * n * Scale + d) \div (2 * d)
                      ELSE -((2 * (-n) * Scale + d) \div (2 * d))

\* a threshold n / d of the code on the grid of the fixed point: for x on the grid,
\* x <= n/d  iff  x <= FxFloor(n, d), and  x < n/d  iff  x < FxCeil(n, d)
FxFloor(n, d) == (n * Scale) \div d
FxCeil(n, d) == (n * Scale + d - 1) \div d

IAbs(n) == IF n < 0 THEN -n ELSE n
ISgn(n) == IF n > 0 THEN 1 ELSE IF n < 0 THEN -1 ELSE 0
IMin(a, b) == IF a <= b THEN a ELSE b
IMax(a, b) == IF a >= b THEN a ELSE b

\* floor(sqrt(n)) for an integer n >= 0, by bisection on [lo, hi).
RECURSIVE ISqrtIter(_, _, _)
ISqrtIter(n, lo, hi) ==
    IF hi - lo <= 1 THEN lo
    ELSE LET mid == (lo + hi) \div 2
         IN  IF mid * mid <= n THEN ISqrtIter(n, mid, hi) ELSE ISqrtIter(n, lo, mid)
ISqrt(n) == ISqrtIter(n, 0, IMin(n + 1, 46341))

(***************************************************************************)
(* Finite fixed-point product and quotient, rounded to nearest, computed   *)
(* in two halves so that no intermediate exceeds 32 bits.  A magnitude     *)
(* that reaches 2^30 overflows to an infinity, as a double's does at its   *)
(* own largest exponent.                                                   *)
(***************************************************************************)
Saturate(n) == IF n >= PInf THEN PInf ELSE IF n <= NInf THEN NInf ELSE n
FMulMag(a, b) == \* a >= b >= 0
    LET ah == a \div Scale
        al == a % Scale
    IN  IF b = 0 THEN 0
        ELSE IF ah > (PInf - 1) \div b - 1 THEN PInf
        ELSE IF b < (PInf - 1 + PInf) \div Scale
             THEN ah * b + (al * b + Scale \div 2) \div Scale
             ELSE ah * b + al * (b \div Scale)
FMul(a, b) ==
    LET x == IAbs(a)
        y == IAbs(b)
    IN  ISgn(a) * ISgn(b) * FMulMag(IMax(x, y), IMin(x, y))
FDivMag(a, b) == \* a >= 0, b > 0
    LET q == a \div b
        rem == a % b
    IN  IF q >= PInf \div Scale THEN PInf
        ELSE IF b < (PInf - 1 + PInf) \div Scale
             THEN Saturate(q * Scale + (rem * Scale + b \div 2) \div b)
             ELSE Saturate(q * Scale + rem \div (b \div Scale))
FDiv(a, b) == ISgn(a) * ISgn(b) * FDivMag(IAbs(a), IAbs(b))

(***************************************************************************)
(* Arithmetic of doubles: + - * / negation, absolute value, comparisons.   *)
(***************************************************************************)
Neg(a) == IF IsNaN(a) THEN NaN ELSE -a
Abs(a) == IF IsNaN(a) THEN NaN ELSE IAbs(a)
Add(a, b) ==
    IF IsNaN(a) \/ IsNaN(b) THEN NaN
    ELSE IF IsInf(a) THEN (IF IsInf(b) /\ a # b THEN NaN ELSE a)
    ELSE IF IsInf(b) THEN b
    ELSE Saturate(a + b)
Sub(a, b) == Add(a, Neg(b))
Mul(a, b) ==
    IF IsNaN(a) \/ IsNaN(b) THEN NaN
    ELSE IF IsInf(a) \/ IsInf(b)
         THEN (IF a = 0 \/ b = 0 THEN NaN
               ELSE IF ISgn(a) * ISgn(b) > 0 THEN PInf ELSE NInf)
    ELSE FMul(a, b)
Div(a, b) ==
    IF IsNaN(a) \/ IsNaN(b) THEN NaN
    ELSE IF IsInf(a) THEN (IF IsInf(b) THEN NaN
                           ELSE IF ISgn(a) * (IF b < 0 THEN -1 ELSE 1) > 0 THEN PInf ELSE NInf)
    ELSE IF IsInf(b) THEN 0
    ELSE IF b = 0 THEN (IF a = 0 THEN NaN ELSE IF a > 0 THEN PInf ELSE NInf)
    ELSE FDiv(a, b)
Lt(a, b) == ~IsNaN(a) /\ ~IsNaN(b) /\ a < b
Le(a, b) == ~IsNaN(a) /\ ~IsNaN(b) /\ a <= b
Gt(a, b) == Lt(b, a)
Ge(a, b) == Le(b, a)

(***************************************************************************)
(* numpy's elementary functions on the fixed point.                        *)
(***************************************************************************)
Pi == Fx(355, 113)
TwoPi == 2 * Pi
HalfPi == Pi \div 2
Ln2 == Fx(6931, 10000)

\* n / d for integers, d > 0, rounded to nearest (the rounding of one series term).
RDiv(n, d) == ISgn(n) * ((2 * IAbs(n) + d) \div (2 * d))

\* sum of the series whose k-th term is term and whose next term is
\* sgn * term * x2 / ((k + 1) * (k + 2)), until the terms vanish.
RECURSIVE PowerSeries(_, _, _, _, _)
PowerSeries(x2, sgn, term, k, acc) ==
    IF term = 0 \/ k > 40 THEN acc
    ELSE PowerSeries(x2, sgn, sgn * RDiv(FMul(term, x2), (k + 1) * (k + 2)),
                     k + 2, acc + term)

\* cos and sin of a finite x with |x| <= pi/2
CosSmall(x) == PowerSeries(FMul(x, x), -1, Scale, 0, 0)
SinSmall(x) == PowerSeries(FMul(x, x), -1, x, 1, 0)
\* x reduced to [-pi, pi)
ReduceAngle(x) == ((x + Pi) % TwoPi) - Pi
\* cos and sin of r in [-pi, pi): cos(r) = -cos(pi - |r|) and
\* sin(r) = sin(pi - r) = sin(-pi - r) bring r into [-pi/2, pi/2]
CosReduced(r) == IF IAbs(r) > HalfPi THEN -CosSmall(Pi - IAbs(r)) ELSE CosSmall(r)
SinReduced(r) ==
    SinSmall(IF r > HalfPi THEN Pi - r ELSE IF r < -HalfPi THEN -Pi - r ELSE r)
np_cos(a) == IF ~IsFinite(a) THEN NaN ELSE CosReduced(ReduceAngle(a))
np_sin(a) == IF ~IsFinite(a) THEN NaN ELSE SinReduced(ReduceAngle(a))
np_tan(a) == Div(np_sin(a), np_cos(a))
\* cosh and sinh overflow to an infinity beyond |x| = 8
np_cosh(a) ==
    IF IsNaN(a) THEN NaN
    ELSE IF IAbs(a) > 8 * Scale THEN PInf
    ELSE PowerSeries(FMul(a, a), 1, Scale, 0, 0)
np_sinh(a) ==
    IF IsNaN(a) THEN NaN
    ELSE IF a > 8 * Scale THEN PInf
    ELSE IF a < -8 * Scale THEN NInf
    ELSE PowerSeries(FMul(a, a), 1, a, 1, 0)
\* sqrt(n / Scale) * Scale = sqrt(n * Scale); a large n is quartered first
RECURSIVE SqrtFinite(_)
SqrtFinite(n) ==
    IF n < (PInf - 1 + PInf) \div Scale THEN ISqrt(n * Scale) ELSE 2 * SqrtFinite(n \div 4)
np_sqrt(a) ==
    IF IsNaN(a) THEN NaN
    ELSE IF a < 0 THEN NaN
    ELSE IF a = PInf THEN PInf
    ELSE SqrtFinite(a)

\* atanh(y) = y + y^3/3 + y^5/5 + ... for a finite |y| < 1
RECURSIVE AtanhSeries(_, _, _, _)
AtanhSeries(y2, pow, k, acc) ==
    IF pow = 0 \/ k > 200 THEN acc
    ELSE AtanhSeries(y2, FMul(pow, y2), k + 2, acc + RDiv(pow, k))
\* ln x for a finite x > 0: x is brought into [1, 2] by halving or doubling,
\* ln x = n ln 2 + 2 atanh((m - 1) / (m + 1))
RECURSIVE LogReduced(_, _)
LogReduced(x, n) ==
    IF x > 2 * Scale THEN LogReduced(RDiv(x, 2), n + 1)
    ELSE IF x < Scale THEN LogReduced(2 * x, n - 1)
    ELSE LET y == FDiv(x - Scale, x + Scale)
         IN  n * Ln2 + 2 * AtanhSeries(FMul(y, y), y, 1, 0)
np_log(a) ==
    IF IsNaN(a) THEN NaN
    ELSE IF a < 0 THEN NaN
    ELSE IF a = 0 THEN NInf
    ELSE IF a = PInf THEN PInf
    ELSE LogReduced(a, 0)
np_arctanh(a) ==
    IF IsNaN(a) THEN NaN
    ELSE IF a > Scale \/ a < -Scale THEN NaN
    ELSE IF a = Scale THEN PInf
    ELSE IF a = -Scale THEN NInf
    ELSE RDiv(LogReduced(FDiv(Scale + a, Scale - a), 0), 2)

\* atan(t) = t - t^3/3 + t^5/5 - ... for a finite |t| <= 1/2
RECURSIVE AtanSeries(_, _, _, _)
AtanSeries(t2, pow, k, acc) ==
    IF pow = 0 \/ k > 200 THEN acc
    ELSE AtanSeries(t2, -FMul(pow, t2), k + 2, acc + RDiv(pow, k))
\* atan of a finite t >= 0: 1/t above 1, then twice the half-angle
\* t / (1 + sqrt(1 + t^2)), which is at most tan(pi/16)
AtanHalve(t) == FDiv(t, Scale + ISqrt((Scale + FMul(t, t)) * Scale))
AtanQuarter(h) == 4 * AtanSeries(FMul(h, h), h, 1, 0)
AtanUnit(t) == AtanQuarter(AtanHalve(AtanHalve(t))) \* 0 <= t <= 1
AtanPos(t) == IF t > Scale THEN HalfPi - AtanUnit(FDiv(Scale, t)) ELSE AtanUnit(t)
np_arctan(a) ==
    IF IsNaN(a) THEN NaN
    ELSE IF a = PInf THEN HalfPi
    ELSE IF a = NInf THEN -HalfPi
    ELSE ISgn(a) * AtanPos(IAbs(a))
\* arccos on [-1, 1] is atan2(sqrt(1 - c^2), c); outside it is NaN
ArccosFold(a, t) == IF a > 0 THEN t ELSE Pi - t
np_arccos(a) ==
    IF IsNaN(a) \/ a > Scale \/ a < -Scale THEN NaN
    ELSE IF a = 0 THEN HalfPi
    ELSE ArccosFold(a, AtanPos(FDiv(ISqrt((Scale - FMul(a, a)) * Scale), IAbs(a))))
\* atan2(y, x) for finite arguments, in (-pi, pi]: from t = atan(y / |x|)
Atan2Fold(y, x, t) == IF x > 0 THEN t ELSE IF y >= 0 THEN Pi - t ELSE -Pi - t
np_arctan2(y, x) ==
    IF IsNaN(y) \/ IsNaN(x) THEN NaN
    ELSE IF x = 0 THEN (IF y > 0 THEN HalfPi ELSE IF y < 0 THEN -HalfPi ELSE 0)
    ELSE Atan2Fold(y, x, np_arctan(Div(y, IAbs(x))))
np_clip(a, lo, hi) == IF IsNaN(a) THEN NaN ELSE IF a < lo THEN lo ELSE IF a > hi THEN hi ELSE a
np_sign(a) == IF IsNaN(a) THEN NaN ELSE ISgn(a) * Scale
\* a test that never takes z for zero
np_isclose0_never(a) == FALSE
\* np.isclose(z, 0.0): |z - 0| <= atol + rtol * |0| with atol = 1e-8, which is
\* below the resolution of the fixed point
np_isclose0(a) == IsFinite(a) /\ IAbs(a) <= FxFloor(1, 100000000)

(***************************************************************************)
(* Vectors: numpy arrays of three doubles.                                 *)
(***************************************************************************)
Vec(a, b, c) == <<a, b, c>>
np_dot(a, b) == Add(Add(Mul(a[1], b[1]), Mul(a[2], b[2])), Mul(a[3], b[3]))
np_cross(a, b) ==
    << Sub(Mul(a[2], b[3]), Mul(a[3], b[2])),
       Sub(Mul(a[3], b[1]), Mul(a[1], b[3])),
       Sub(Mul(a[1], b[2]), Mul(a[2], b[1])) >>
np_linalg_norm(a) == np_sqrt(np_dot(a, a))
VScale(k, a) == <<Mul(k, a[1]), Mul(k, a[2]), Mul(k, a[3])>>
VDiv(a, k) == <<Div(a[1], k), Div(a[2], k), Div(a[3], k)>>
VAdd(a, b) == <<Add(a[1], b[1]), Add(a[2], b[2]), Add(a[3], b[3])>>
VSub(a, b) == <<Sub(a[1], b[1]), Sub(a[2], b[2]), Sub(a[3], b[3])>>
NaNVec == <<NaN, NaN, NaN>>
ZeroVec == <<0, 0, 0>>

(***************************************************************************)
(* The gravitational-parameter tables.  Their values come from astropy     *)
(* (G * M_earth, ...), which is not part of the repository; the model      *)
(* holds three distinct positive stand-ins (none of them 1, as none of the  *)
(* real values is) in units where the distance unit is 1.  The two tables  *)
(* (km and SI) hold the same bodies.                                       *)
(***************************************************************************)
EARTH_GRAVITATIONAL_PARAMETER == Fx(4, 1)
JUPITER_GRAVITATIONAL_PARAMETER == Fx(9, 1)
SOLAR_GRAVITATIONAL_PARAMETER == Fx(16, 1)
CELESTIAL_BODIES_KM ==
    [earth |-> EARTH_GRAVITATIONAL_PARAMETER,
     sun |-> SOLAR_GRAVITATIONAL_PARAMETER,
     jupiter |-> JUPITER_GRAVITATIONAL_PARAMETER]
CELESTIAL_BODIES == CELESTIAL_BODIES_KM

\* a lookup that falls back on the earth entry (TABLE.get(name, TABLE['earth']))
ResolveMu_default_earth(table, body, mu_is_None, mu) ==
    IF mu_is_None
    THEN [err |-> FALSE, looked |-> TRUE,
          mu |-> IF body \in DOMAIN table THEN table[body] ELSE table.earth]
    ELSE [err |-> FALSE, looked |-> FALSE, mu |-> mu]
\* a lookup made before the test of mu
ResolveMu_lookup_first(table, body, mu_is_None, mu) ==
    IF body \notin DOMAIN table /\ body # "Earth"
    THEN [err |-> TRUE, looked |-> TRUE, mu |-> NaN]
    ELSE [err |-> FALSE, looked |-> TRUE,
          mu |-> IF mu_is_None THEN table.earth ELSE mu]

\* str.lower() on the body names the model passes
Lower(body) == IF body = "Earth" THEN "earth" ELSE body

\* `if mu is None: try: mu = TABLE[body.lower()] except KeyError: raise ValueError`
\* [err |-> TRUE] stands for the ValueError; looked tells whether the table was read.
ResolveMu(table, body, mu_is_None, mu) ==
    IF mu_is_None
    THEN IF Lower(body) \in DOMAIN table
         THEN [err |-> FALSE, looked |-> TRUE, mu |-> table[Lower(body)]]
         ELSE [err |-> TRUE, looked |-> TRUE, mu |-> NaN]
    ELSE [err |-> FALSE, looked |-> FALSE, mu |-> mu]

(***************************************************************************)
(* propagation/TheKeplerProblem.py                                         *)
(***************************************************************************)
stumpff_C(z) ==
    IF np_isclose0(z) THEN Fx(1, 2)
    ELSE IF Gt(z, 0) THEN Div(Sub(Scale, np_cos(np_sqrt(z))), z)
    ELSE Div(Sub(Scale, np_cosh(np_sqrt(Neg(z)))), z)

stumpff_S(z) ==
    IF np_isclose0(z) THEN Fx(1, 6)
    ELSE IF Gt(z, 0)
         THEN Div(Sub(np_sqrt(z), np_sin(np_sqrt(z))), Mul(z, np_sqrt(z)))
         ELSE Div(Sub(np_sinh(np_sqrt(Neg(z))), np_sqrt(Neg(z))),
                  Mul(Neg(z), np_sqrt(Neg(z))))

Sq(x) == Mul(x, x)
Cube(x) == Mul(Mul(x, x), x)

\* lines 79-83: the orbital quantities computed from r0, v0 and mu
KeplerQuantities(r0, v0, mu, r0_norm) ==
    [r0_norm |-> r0_norm,
     vr0 |-> Div(np_dot(r0, v0), r0_norm),
     alpha |-> Sub(Div(Fx(2, 1), r0_norm), Div(np_dot(v0, v0), mu))]
KeplerSetup(r0, v0, mu) == KeplerQuantities(r0, v0, mu, np_linalg_norm(r0))

\* lines 86-92: the initial guess of the universal anomaly
InitialGuess(q, mu, dt) ==
    IF Gt(q.alpha, 0)
    THEN Mul(Mul(np_sqrt(mu), dt), q.alpha)
    ELSE Mul(Mul(np_sign(dt), np_sqrt(Div(-Scale, q.alpha))),
             np_log(Div(Mul(Mul(Mul(Fx(-2, 1), mu), q.alpha), dt),
                        Add(q.vr0,
                            Mul(Mul(np_sign(dt), np_sqrt(Div(Neg(mu), q.alpha))),
                                Sub(Scale, Mul(q.r0_norm, q.alpha)))))))

\* lines 86-96: the locals on entry to the loop; C and S are not bound yet
NewtonStart(q, mu, dt) ==
    [q |-> q, mu |-> mu, x |-> InitialGuess(q, mu, dt), ratio |-> Scale, it |-> 0,
     C |-> NaN, S |-> NaN, bound |-> FALSE]

\* line 102: the residual F of the universal Kepler equation
Residual(q, mu, dt, x, C, S) ==
    Sub(Add(Add(Mul(Mul(Div(Mul(q.r0_norm, q.vr0), np_sqrt(mu)), Sq(x)), C),
                Mul(Mul(Sub(Scale, Mul(q.alpha, q.r0_norm)), Cube(x)), S)),
            Mul(q.r0_norm, x)),
        Mul(np_sqrt(mu), dt))

\* line 103: its derivative dF/dx
ResidualDerivative(q, mu, x, C, S) ==
    Add(Add(Mul(Mul(Div(Mul(q.r0_norm, q.vr0), np_sqrt(mu)), x),
                Sub(Scale, Mul(Mul(q.alpha, Sq(x)), S))),
            Mul(Mul(Sub(Scale, Mul(q.alpha, q.r0_norm)), Sq(x)), C)),
        q.r0_norm)

\* lines 104-105: x -= ratio; it += 1
NewtonUpdate(l, ratio, C, S) ==
    [l EXCEPT !.x = Sub(l.x, ratio), !.ratio = ratio, !.it = l.it + 1,
              !.C = C, !.S = S, !.bound = TRUE]
\* lines 102-104: F, dFdx and ratio = F / dFdx from the C and S of this pass
NewtonStep(q, mu, dt, l, C, S) ==
    NewtonUpdate(l, Div(Residual(q, mu, dt, l.x, C, S),
                        ResidualDerivative(q, mu, l.x, C, S)), C, S)
\* lines 98-105: one pass of the loop body on the locals l, z = alpha * x^2
NewtonBody(q, mu, dt, l) ==
    NewtonStep(q, mu, dt, l, stumpff_C(Mul(q.alpha, Sq(l.x))),
                             stumpff_S(Mul(q.alpha, Sq(l.x))))

\* a loop condition that lets a pass start with it = max_iter
NewtonContinues_through_cap(l, tol, max_iter) ==
    Gt(Abs(l.ratio), tol) /\ l.it <= max_iter
\* line 97: the loop condition
NewtonContinues(l, tol, max_iter) == Gt(Abs(l.ratio), tol) /\ l.it < max_iter

\* a cap test that is off by one (it > max_iter)
CapExceeded_off_by_one(l, max_iter) == l.it > max_iter
\* line 107: `if it >= max_iter`
CapExceeded(l, max_iter) == l.it >= max_iter

\* lines 110-123: the Lagrange coefficients and the propagated state, from the
\* final x and from the C and S the last pass of the loop left behind
LagrangeState(r0, v0, f, g, r, fdot, gdot) ==
    [r |-> r, v |-> VAdd(VScale(fdot, r0), VScale(gdot, v0)),
     f |-> f, g |-> g, fdot |-> fdot, gdot |-> gdot]
\* lines 117-121: r_norm, fdot, gdot from the new position r
LagrangeVelocity(q, mu, r0, v0, l, f, g, r) ==
    LagrangeState(r0, v0, f, g, r,
        Mul(Mul(Div(np_sqrt(mu), Mul(q.r0_norm, np_linalg_norm(r))), l.x),
            Sub(Mul(Mul(q.alpha, Sq(l.x)), l.S), Scale)),
        Sub(Scale, Div(Mul(Sq(l.x), l.C), np_linalg_norm(r))))
\* line 115: r = f * r0 + g * v0
LagrangePosition(q, mu, r0, v0, l, f, g) ==
    LagrangeVelocity(q, mu, r0, v0, l, f, g, VAdd(VScale(f, r0), VScale(g, v0)))
Lagrange(q, mu, dt, r0, v0, l) ==
    LagrangePosition(q, mu, r0, v0, l,
        Sub(Scale, Div(Mul(Sq(l.x), l.C), q.r0_norm)),
        Sub(dt, Mul(Mul(Div(Scale, np_sqrt(mu)), Cube(l.x)), l.S)))

(***************************************************************************)
(* time/UniversalTimeOfFlight.py                                           *)
(***************************************************************************)
\* lines 38-42: r0_norm, vr0 and alpha, by the expressions universal_kepler uses
TofQuantities(r0, v0, mu) == KeplerSetup(r0, v0, mu)
\* lines 48-51: the returned expression
UniversalTofValue(chi, mu, q, C, S) ==
    Add(Add(Mul(Mul(Div(Mul(q.r0_norm, q.vr0), np_sqrt(mu)), Sq(chi)), C),
            Mul(Mul(Sub(Scale, Mul(q.alpha, q.r0_norm)), Cube(chi)), S)),
        Mul(q.r0_norm, chi))
\* lines 44-46: z = alpha * chi^2, C and S
UniversalTofAt(chi, mu, q) ==
    UniversalTofValue(chi, mu, q, stumpff_C(Mul(q.alpha, Sq(chi))),
                                  stumpff_S(Mul(q.alpha, Sq(chi))))
\* lines 38-51: the value the function returns for chi
UniversalTof(chi, r0, v0, mu) == UniversalTofAt(chi, mu, TofQuantities(r0, v0, mu))

\* what a call leaves behind: the lookup if it was made, and the computation
Computed(m) ==
    (IF m.looked THEN {"table_lookup"} ELSE {})
        \cup {"orbital_quantities", "division_by_norm"}

universal_time_of_flight(chi, r0, v0, body, mu_is_None, mu) ==
    LET m == ResolveMu(CELESTIAL_BODIES, body, mu_is_None, mu)
    IN  IF m.err
        THEN [kind |-> "ValueError", evts |-> {"table_lookup"}]
        ELSE [kind |-> "return", val |-> UniversalTof(chi, r0, v0, m.mu),
              evts |-> Computed(m)]

(***************************************************************************)
(* time/TimeOfFlightToPosition.py                                          *)
(***************************************************************************)
\* lines 51-62: energy, angular momentum, semilatus rectum, eccentricity vector
OrbitFromEccentricity(r0, v0, mu, h_vec, e_vec) ==
    [energy |-> Sub(Div(np_dot(v0, v0), Fx(2, 1)), Div(mu, np_linalg_norm(r0))),
     h_vec |-> h_vec, p |-> Div(Sq(np_linalg_norm(h_vec)), mu),
     e_vec |-> e_vec, e |-> np_linalg_norm(e_vec)]
OrbitFromMomentum(r0, v0, mu, h_vec) ==
    OrbitFromEccentricity(r0, v0, mu, h_vec,
        VSub(VDiv(np_cross(v0, h_vec), mu), VDiv(r0, np_linalg_norm(r0))))
OrbitShape(r0, v0, mu) == OrbitFromMomentum(r0, v0, mu, np_cross(r0, v0))

\* `if cond: f = 2 * np.pi - f`
ReflectIf(cond, f) == IF cond THEN Sub(TwoPi, f) ELSE f

\* lines 64-69: the nested helper true_anomaly(r)
true_anomaly(o, r) ==
    ReflectIf(Lt(np_dot(np_cross(o.e_vec, r), o.h_vec), 0),
              np_arccos(np_clip(Div(np_dot(o.e_vec, r), Mul(o.e, np_linalg_norm(r))),
                                -Scale, Scale)))

\* line 81: E = lambda f: 2 * arctan(sqrt((1 - e) / (1 + e)) * tan(f / 2))
EccentricAnomaly(e, f) ==
    Mul(Fx(2, 1), np_arctan(Mul(np_sqrt(Div(Sub(Scale, e), Add(Scale, e))),
                                np_tan(Div(f, Fx(2, 1))))))
\* line 88: F = lambda f: 2 * arctanh(sqrt((e - 1) / (e + 1)) * tan(f / 2))
HyperbolicAnomaly(e, f) ==
    Mul(Fx(2, 1), np_arctanh(Mul(np_sqrt(Div(Sub(e, Scale), Add(e, Scale))),
                                 np_tan(Div(f, Fx(2, 1))))))

\* the branch selection without the test of line 75
ConicBranch_no_parabola(energy) ==
    IF Lt(energy, 0) THEN "elliptical" ELSE "hyperbolic"
\* which of the three formulas lines 75-89 take: the first test is
\* abs(energy) < 1e-8, the second energy < 0
ConicBranch(energy) ==
    IF Lt(Abs(energy), FxCeil(1, 100000000)) THEN "parabolic"
    ELSE IF Lt(energy, 0) THEN "elliptical"
    ELSE "hyperbolic"

\* lines 80 and 87: a = -mu / (2 * energy)
SemiMajorAxis(o, mu) == Div(Neg(mu), Mul(Fx(2, 1), o.energy))

\* line 77: Barker's equation, from D0 = tan(f0 / 2) and Df = tan(ff / 2)
ParabolicTof(o, mu, D0, Df) ==
    Mul(Mul(Fx(1, 2), np_sqrt(Div(Mul(Fx(2, 1), Cube(o.p)), mu))),
        Sub(Add(Df, Div(Cube(Df), Fx(3, 1))), Add(D0, Div(Cube(D0), Fx(3, 1)))))
\* line 82: Kepler's equation, from E0 = E(f0) and Ef = E(ff)
KeplerDifference(o, mu, E0, Ef) ==
    Mul(np_sqrt(Div(Cube(SemiMajorAxis(o, mu)), mu)),
        Sub(Sub(Ef, E0), Mul(o.e, Sub(np_sin(Ef), np_sin(E0)))))
\* line 82: dt of the elliptical branch before the wrap-around
EllipticalRaw(o, mu, f0, ff) ==
    KeplerDifference(o, mu, EccentricAnomaly(o.e, f0), EccentricAnomaly(o.e, ff))
\* the full period 2 * pi * sqrt(a^3 / mu) of line 84
OrbitalPeriod(o, mu) ==
    Mul(Mul(Fx(2, 1), Pi), np_sqrt(Div(Cube(SemiMajorAxis(o, mu)), mu)))
\* lines 83-84: `if dt < 0: dt += 2 * np.pi * np.sqrt(a**3 / mu)`
WrapPeriod(dt, period) == IF Lt(dt, 0) THEN Add(dt, period) ELSE dt
\* line 89: the hyperbolic Kepler equation, from F0 = F(f0) and Ff = F(ff)
HyperbolicTof(o, mu, F0, Ff) ==
    Mul(np_sqrt(Div(Cube(Neg(SemiMajorAxis(o, mu))), mu)),
        Sub(Mul(o.e, Sub(np_sinh(Ff), np_sinh(F0))), Sub(Ff, F0)))

\* lines 74-91: dt from the true anomalies f0 and ff
TofBetween(o, mu, f0, ff) ==
    IF ConicBranch(o.energy) = "parabolic"
    THEN ParabolicTof(o, mu, np_tan(Div(f0, Fx(2, 1))), np_tan(Div(ff, Fx(2, 1))))
    ELSE IF ConicBranch(o.energy) = "elliptical"
    THEN WrapPeriod(EllipticalRaw(o, mu, f0, ff), OrbitalPeriod(o, mu))
    ELSE HyperbolicTof(o, mu, HyperbolicAnomaly(o.e, f0), HyperbolicAnomaly(o.e, ff))
\* lines 74-89: the formula evaluated, and line 84 when it is executed
TofSteps(o, mu, f0, ff) ==
    IF ConicBranch(o.energy) = "parabolic" THEN {"barker"}
    ELSE IF ConicBranch(o.energy) = "elliptical"
    THEN {"kepler_elliptical"} \cup
         (IF Lt(EllipticalRaw(o, mu, f0, ff), 0) THEN {"period_added"} ELSE {})
    ELSE {"kepler_hyperbolic"}
TofStepsOnOrbit(o, mu, r0, rf) == TofSteps(o, mu, true_anomaly(o, r0), true_anomaly(o, rf))
\* lines 71-72: f0 = true_anomaly(r0); ff = true_anomaly(rf)
TofOnOrbit(o, mu, r0, rf) == TofBetween(o, mu, true_anomaly(o, r0), true_anomaly(o, rf))
\* lines 48-91
TofToPosition(r0, v0, rf, mu) == TofOnOrbit(OrbitShape(r0, v0, mu), mu, r0, rf)

time_of_flight_to_position(r0, v0, rf, body, mu_is_None, mu) ==
    LET m == ResolveMu(CELESTIAL_BODIES, body, mu_is_None, mu)
    IN  IF m.err
        THEN [kind |-> "ValueError", evts |-> {"table_lookup"}]
        ELSE [kind |-> "return", val |-> TofToPosition(r0, v0, rf, m.mu),
              evts |-> Computed(m) \cup
                       TofStepsOnOrbit(OrbitShape(r0, v0, m.mu), m.mu, r0, rf)]

(***************************************************************************)
(* states.py                                                               *)
(***************************************************************************)
\* MU_EARTH = 3.986004418e14 m^3/s^2 in the code; in the model's units it is the
\* stand-in of the tables' earth entry
MU_EARTH == EARTH_GRAVITATIONAL_PARAMETER

\* x % (2 * pi) of a double x: in [0, 2 pi) for a finite x, NaN otherwise
Mod2Pi(a) == IF IsFinite(a) THEN a % TwoPi ELSE NaN

\* StateRV.as_coe, lines 18-44: the state [r, v] to the elements.  Nothing in it
\* raises; every quotient is a quotient of doubles.
\* lines 23-44, from h_vec, n_vec, e_vec and e
CoeFromEccentricity(r_vec, v_vec, h_vec, n_vec, e_vec, e) ==
    [a |-> Div(Scale, Sub(Div(Fx(2, 1), np_linalg_norm(r_vec)),
                          Div(Sq(np_linalg_norm(v_vec)), MU_EARTH))),
     e |-> e,
     i |-> np_arccos(Div(h_vec[3], np_linalg_norm(h_vec))),
     raan |-> Mod2Pi(np_arctan2(n_vec[2], n_vec[1])),
     argp |-> ReflectIf(Lt(e_vec[3], 0),
                        IF e # 0
                        THEN np_arccos(Div(np_dot(n_vec, e_vec),
                                           Mul(np_linalg_norm(n_vec), e)))
                        ELSE 0),
     nu |-> ReflectIf(Lt(np_dot(r_vec, v_vec), 0),
                      np_arccos(Div(np_dot(e_vec, r_vec),
                                    Mul(e, np_linalg_norm(r_vec)))))]
\* line 30: e = np.linalg.norm(e_vec)
CoeFromVectors(r_vec, v_vec, h_vec, n_vec, e_vec) ==
    CoeFromEccentricity(r_vec, v_vec, h_vec, n_vec, e_vec, np_linalg_norm(e_vec))
\* lines 25 and 29: n_vec and e_vec from h_vec
CoeFromMomentum(r_vec, v_vec, h_vec) ==
    CoeFromVectors(r_vec, v_vec, h_vec, np_cross(Vec(0, 0, Scale), h_vec),
        VSub(VDiv(np_cross(v_vec, h_vec), MU_EARTH),
             VDiv(r_vec, np_linalg_norm(r_vec))))
as_coe(self) == CoeFromMomentum(self.r, self.v, np_cross(self.r, self.v))

\* R @ x for a 3x3 matrix given by its rows
MatVec(R, x) == <<np_dot(R[1], x), np_dot(R[2], x), np_dot(R[3], x)>>

\* ClassicalOE.as_rv, lines 55-89: the elements to the state
\* lines 75-85: the rotation matrix PQW -> IJK
RotationMatrix(cos_O, sin_O, cos_i, sin_i, cos_w, sin_w) ==
    << << Sub(Mul(cos_O, cos_w), Mul(Mul(sin_O, sin_w), cos_i)),
          Sub(Mul(Neg(cos_O), sin_w), Mul(Mul(sin_O, cos_w), cos_i)),
          Mul(sin_O, sin_i) >>,
       << Add(Mul(sin_O, cos_w), Mul(Mul(cos_O, sin_w), cos_i)),
          Add(Mul(Neg(sin_O), sin_w), Mul(Mul(cos_O, cos_w), cos_i)),
          Mul(Neg(cos_O), sin_i) >>,
       << Mul(sin_w, sin_i), Mul(cos_w, sin_i), cos_i >> >>
\* lines 87-89
RotatePqw(R, r_pqw, v_pqw) == [r |-> MatVec(R, r_pqw), v |-> MatVec(R, v_pqw)]
\* lines 58-73: r_pqw, v_pqw and the six cosines and sines
RvFromParameter(self, p, cos_nu, sin_nu) ==
    RotatePqw(RotationMatrix(np_cos(self.raan), np_sin(self.raan),
                             np_cos(self.i), np_sin(self.i),
                             np_cos(self.argp), np_sin(self.argp)),
              Vec(Div(Mul(p, cos_nu), Add(Scale, Mul(self.e, cos_nu))),
                  Div(Mul(p, sin_nu), Add(Scale, Mul(self.e, cos_nu))),
                  0),
              Vec(Mul(Neg(np_sqrt(Div(MU_EARTH, p))), sin_nu),
                  Mul(np_sqrt(Div(MU_EARTH, p)), Add(self.e, cos_nu)),
                  0))
\* line 57: p = a * (1 - e^2)
as_rv(self) ==
    RvFromParameter(self, Mul(self.a, Sub(Scale, Sq(self.e))),
                    np_cos(self.nu), np_sin(self.nu))


(***************************************************************************)
(* orbit-determination/Gauss-Problem.py, class GaussProblem                *)
(***************************************************************************)
\* the number of series terms getS_and_C sums (its default argument terms=100)
GaussTerms == 100
\* the cap on the passes of SolutionViaUniversalVariables' loop
max_iterations == 100

\* sum of `left` terms of the series whose next term is -term * z / ((k+1)(k+2));
\* a term that overflows makes the sum inf - inf, a NaN
RECURSIVE GaussSeries(_, _, _, _, _)
GaussSeries(z, term, k, left, acc) ==
    IF term = 0 \/ left = 0 THEN acc
    ELSE IF IsInf(FMul(term, z)) THEN NaN
    ELSE GaussSeries(z, -RDiv(FMul(term, z), (k + 1) * (k + 2)), k + 2, left - 1,
                     acc + term)

\* getS_and_C, lines 114-136: S = sum (-z)^n / (2n+3)!, C = sum (-z)^n / (2n+2)!
getS_and_C(z) ==
    IF ~IsFinite(z) THEN [S |-> NaN, C |-> NaN]
    ELSE [S |-> GaussSeries(z, Fx(1, 6), 3, GaussTerms, 0),
          C |-> GaussSeries(z, Fx(1, 2), 2, GaussTerms, 0)]

\* getConstantA, lines 96-111
getConstantA(r1, r2, nu) ==
    Div(Mul(np_sqrt(Mul(np_linalg_norm(r1), np_linalg_norm(r2))), np_sin(nu)),
        np_sqrt(Sub(Scale, np_cos(nu))))

\* lines 159-160: `if y < 0: raise ValueError`; [err |-> TRUE] is the ValueError
NegativeIsError(y) == [err |-> Lt(y, 0), y |-> y]
\* getAuxiliaryVariable, lines 139-163
getAuxiliaryVariable(r1, r2, A, z, S, C) ==
    NegativeIsError(
        IF C = 0 THEN Add(np_linalg_norm(r1), np_linalg_norm(r2))
        ELSE Sub(Add(np_linalg_norm(r1), np_linalg_norm(r2)),
                 Div(Mul(A, Sub(Scale, Mul(z, S))), np_sqrt(C))))

\* lines 179-180: `if np.isnan(t): raise ValueError`
NaNIsError(t) == [err |-> IsNaN(t), t |-> t]
\* getTimeOfFlight, lines 166-181, with its default mu = 1
getTimeOfFlight(x, A, S, y) ==
    NaNIsError(Div(Add(Mul(Cube(x), S), Mul(A, np_sqrt(y))), np_sqrt(Scale)))

\* lines 190-197: dS and dC from S and C
DerivativesFrom(z, sc) ==
    IF z = 0 THEN [dS |-> Fx(-1, 120), dC |-> Fx(-1, 24)]
    ELSE [dS |-> Mul(Div(Scale, Mul(Fx(2, 1), z)), Sub(sc.C, Mul(Fx(3, 1), sc.S))),
          dC |-> Mul(Div(Scale, Mul(Fx(2, 1), z)),
                     Sub(Sub(Scale, Mul(z, sc.S)), Mul(Fx(2, 1), sc.C)))]
\* getdS_anddC, lines 184-199
getdS_anddC(z) == DerivativesFrom(z, getS_and_C(z))

\* getTimeOfFlightDerivative, lines 202-218
getTimeOfFlightDerivative(x, y, dS, S, dC, C, A) ==
    Add(Mul(Cube(x), Sub(dS, Div(Mul(Mul(Fx(3, 1), S), dC), Mul(Fx(2, 1), C)))),
        Mul(Div(A, Fx(8, 1)),
            Add(Div(Mul(Mul(Fx(3, 1), S), np_sqrt(y)), C), Div(A, x))))

\* lagrangeCoefficients, lines 221-240, with its default mu = 1
lagrangeCoefficients(r1, r2, A, y) ==
    [f |-> Sub(Scale, Div(y, np_linalg_norm(r1))),
     g |-> Mul(A, np_sqrt(Div(y, Scale))),
     g_dot |-> Sub(Scale, Div(y, np_linalg_norm(r2)))]

\* getStateVectors, lines 243-255
getStateVectors(c, r1, r2) ==
    [v1 |-> VDiv(VSub(r2, VScale(c.f, r1)), c.g),
     v2 |-> VDiv(VSub(VScale(c.g_dot, r2), r1), c.g)]

\* lines 38 and 41 (and 61-62): x and t from y, NaN when y is not positive; the
\* call of getTimeOfFlight may raise
XTRecord(x, tof) == [err |-> tof.err, x |-> x, t |-> tof.t]
XTFrom(A, S, y, x) == XTRecord(x, getTimeOfFlight(x, A, S, y))
GaussXT(A, S, C, y) ==
    IF Gt(y, 0) THEN XTFrom(A, S, y, np_sqrt(Div(y, C)))
    ELSE [err |-> FALSE, x |-> NaN, t |-> NaN]

\* lines 28-41 and 59-62: S, C, y, x and t for a trial value z.  aux_err and
\* tof_err tell whether getAuxiliaryVariable or getTimeOfFlight raised.
GaussLocals(A, z, iteration, sc, aux, xt) ==
    [A |-> A, z |-> z, S |-> sc.S, C |-> sc.C, y |-> aux.y, x |-> xt.x, t |-> xt.t,
     iteration |-> iteration, aux_err |-> aux.err, tof_err |-> xt.err]
GaussFromY(A, z, iteration, sc, aux) ==
    GaussLocals(A, z, iteration, sc, aux, GaussXT(A, sc.S, sc.C, aux.y))
GaussFromSC(r1, r2, A, z, iteration, sc) ==
    GaussFromY(A, z, iteration, sc, getAuxiliaryVariable(r1, r2, A, z, sc.S, sc.C))
GaussTrial(r1, r2, A, z, iteration) ==
    GaussFromSC(r1, r2, A, z, iteration, getS_and_C(z))

\* line 46: the loop condition
GaussContinues(l, a) ==
    /\ Gt(Abs(Sub(l.t, Sub(a.t2, a.t1))), FxFloor(1, 1000000))
    /\ ~IsNaN(l.t)
    /\ l.iteration < max_iterations
\* lines 48-49: dt_dz
DtDzFrom(l, d) == getTimeOfFlightDerivative(l.x, l.y, d.dS, l.S, d.dC, l.C, l.A)
GaussDtDz(l) == DtDzFrom(l, getdS_anddC(l.z))
\* line 51: the break on abs(dt_dz) < 1e-12
GaussBreaks(l) == Lt(Abs(GaussDtDz(l)), FxCeil(1, 1000000000))
\* lines 55-64: one pass of the loop that does not break
GaussPass(l, a) ==
    GaussTrial(a.r1, a.r2, l.A,
               Sub(l.z, Div(Sub(l.t, Sub(a.t2, a.t1)), GaussDtDz(l))),
               l.iteration + 1)
\* two vectors of NaN
NaNPair == [kind |-> "return", v1 |-> NaNVec, v2 |-> NaNVec]
\* lines 67-70: the velocities after the loop
GaussVelocities(sv) == [kind |-> "return", v1 |-> sv.v1, v2 |-> sv.v2]
GaussResult(l, a) ==
    IF Gt(l.y, 0)
    THEN GaussVelocities(getStateVectors(lagrangeCoefficients(a.r1, a.r2, l.A, l.y),
                                         a.r1, a.r2))
    ELSE NaNPair

(***************************************************************************)
(* propagate.py                                                            *)
(***************************************************************************)
\* lines 30-31: -MU_EARTH * r / np.linalg.norm(r)**3
accel(r) == VDiv(VScale(Neg(MU_EARTH), r), Cube(np_linalg_norm(r)))
Half == Fx(1, 2)

\* lines 54-55: v + (k1_v + 2*k2_v + 2*k3_v + k4_v) / 6, and r likewise
Rk4Sum(k1, k2, k3, k4) ==
    VDiv(VAdd(VAdd(VAdd(k1, VScale(Fx(2, 1), k2)), VScale(Fx(2, 1), k3)), k4),
         Fx(6, 1))
Rk4Combine(r, v, k1_r, k1_v, k2_r, k2_v, k3_r, k3_v, k4_r, k4_v) ==
    [r |-> VAdd(r, Rk4Sum(k1_r, k2_r, k3_r, k4_r)),
     v |-> VAdd(v, Rk4Sum(k1_v, k2_v, k3_v, k4_v))]
\* lines 51-52: k4
Rk4Stage4(r, v, dt, k1_r, k1_v, k2_r, k2_v, k3_r, k3_v) ==
    Rk4Combine(r, v, k1_r, k1_v, k2_r, k2_v, k3_r, k3_v,
               VScale(dt, VAdd(v, k3_v)), VScale(dt, accel(VAdd(r, k3_r))))
\* lines 48-49: k3
Rk4Stage3(r, v, dt, k1_r, k1_v, k2_r, k2_v) ==
    Rk4Stage4(r, v, dt, k1_r, k1_v, k2_r, k2_v,
              VScale(dt, VAdd(v, VScale(Half, k2_v))),
              VScale(dt, accel(VAdd(r, VScale(Half, k2_r)))))
\* lines 45-46: k2
Rk4Stage2(r, v, dt, k1_r, k1_v) ==
    Rk4Stage3(r, v, dt, k1_r, k1_v,
              VScale(dt, VAdd(v, VScale(Half, k1_v))),
              VScale(dt, accel(VAdd(r, VScale(Half, k1_r)))))
\* lines 41-55: one RK4 step of size dt from the state s
rk4_step(s, dt) ==
    Rk4Stage2(s.r, s.v, dt, VScale(dt, s.v), VScale(dt, accel(s.r)))

\* np.ceil(duration / dt) as an integer, for dt > 0
CeilQuotient(duration, dt) == -((-duration) \div dt)
\* line 33: steps = max(1, int(np.ceil(duration / dt)))
StepCount(duration, dt) == IMax(1, CeilQuotient(duration, dt))

\* lines 38-55: each pass of the loop appends the current state and then
\* advances it; passes is the number of passes still to make
RECURSIVE PropagateLoop(_, _, _, _)
PropagateLoop(traj, s, dt, passes) ==
    IF passes = 0 THEN traj
    ELSE PropagateLoop(Append(traj, s), rk4_step(s, dt), dt, passes - 1)
\* lines 33-57: range(steps + 1) makes steps + 1 passes
propagate_two_body(state, duration, dt) ==
    PropagateLoop(<<>>, state, dt, StepCount(duration, dt) + 1)

(***************************************************************************)
(* maneuvers.py and maneuvers/Hohmann.py                                   *)
(***************************************************************************)
\* astropy's G and M_earth in the model's units: G * EARTH_MASS is the
\* stand-in of the Earth's gravitational parameter
GRAVITATIONAL_CONSTANT == Fx(1, 2)
EARTH_MASS == Fx(8, 1)

\* a test of the radii that lets a zero radius through
RadiiInvalid_strict(r1, r2) == Lt(r1, 0) \/ Lt(r2, 0)
\* maneuvers.py line 21, Hohmann.py line 28: `if r1 <= 0 or r2 <= 0`
RadiiInvalid(r1, r2) == Le(r1, 0) \/ Le(r2, 0)
\* Hohmann.py line 30: `if body_mass <= 0`
MassInvalid(body_mass) == Le(body_mass, 0)

\* maneuvers.py lines 25-27: the two burns and the sum of their magnitudes
ManeuverBurns(dv1, dv2) ==
    [kind |-> "return", dv1 |-> dv1, dv2 |-> dv2,
     dv_total |-> Add(Abs(dv1), Abs(dv2)), evts |-> {"delta_v"}]
\* maneuvers.py lines 21-27
hohmann_delta_v(r1, r2) ==
    IF RadiiInvalid(r1, r2)
    THEN [kind |-> "ValueError", evts |-> {}]
    ELSE ManeuverBurns(
             Mul(np_sqrt(Div(MU_EARTH, r1)),
                 Sub(np_sqrt(Div(Mul(Fx(2, 1), r2), Add(r1, r2))), Scale)),
             Mul(np_sqrt(Div(MU_EARTH, r2)),
                 Sub(Scale, np_sqrt(Div(Mul(Fx(2, 1), r1), Add(r1, r2))))))

\* Hohmann.py lines 64-68: the six values returned
HohmannReturn(dv1, dv2, a_transfer, p_transfer, t_transfer) ==
    [kind |-> "return", dv1 |-> dv1, dv2 |-> dv2, dv_total |-> Add(dv1, dv2),
     a_transfer |-> a_transfer, p_transfer |-> p_transfer,
     t_transfer |-> t_transfer, evts |-> {"delta_v"}]
\* Hohmann.py lines 54-61: the burns of a raised orbit (r2 > r1) and those of
\* any other
HohmannBurns(r1, r2, v1_circ, v2_circ, v1_tr, v2_tr, a_tr, p_tr, t_tr) ==
    IF Gt(r2, r1)
    THEN HohmannReturn(Sub(v1_tr, v1_circ), Sub(v2_circ, v2_tr),
                       a_tr, p_tr, t_tr)
    ELSE HohmannReturn(Add(v1_tr, v1_circ), Add(v2_tr, v2_circ),
                       a_tr, p_tr, t_tr)
\* Hohmann.py lines 42-51 and 67, from mu, E_transfer and a_transfer
HohmannSpeeds(r1, r2, mu, E_transfer, a_transfer) ==
    HohmannBurns(r1, r2, np_sqrt(Div(mu, r1)), np_sqrt(Div(mu, r2)),
                 np_sqrt(Mul(Fx(2, 1), Add(Div(mu, r1), E_transfer))),
                 np_sqrt(Mul(Fx(2, 1), Add(Div(mu, r2), E_transfer))),
                 a_transfer,
                 Mul(Mul(Fx(2, 1), a_transfer),
                     Sub(Scale, Div(Mul(r1, r2), Mul(a_transfer, Add(r1, r2))))),
                 Mul(Pi, np_sqrt(Div(Cube(a_transfer), mu))))
\* Hohmann.py lines 33-39: mu = G * body_mass, E_transfer, a_transfer
HohmannTransfer(r1, r2, mu) ==
    HohmannSpeeds(r1, r2, mu, Div(Neg(mu), Add(r1, r2)),
                  Div(Add(r1, r2), Fx(2, 1)))
\* Hohmann.py lines 28-68
Hohmann_hohmann_delta_v(r1, r2, body_mass) ==
    IF RadiiInvalid(r1, r2) \/ MassInvalid(body_mass)
    THEN [kind |-> "ValueError", evts |-> {}]
    ELSE HohmannTransfer(r1, r2, Mul(GRAVITATIONAL_CONSTANT, body_mass))

(***************************************************************************)
(* maneuvers/PlaneChange.py                                                *)
(***************************************************************************)
\* a test of the inclination change with no upper limit
InclinationInvalid_no_upper(delta_i) == Lt(delta_i, 0)
\* line 22: `if delta_i < 0 or delta_i > 2 * np.pi`
InclinationInvalid(delta_i) == Lt(delta_i, 0) \/ Gt(delta_i, TwoPi)
\* lines 20-27
plane_change_delta_v(v, delta_i) ==
    IF Le(v, 0) \/ InclinationInvalid(delta_i)
    THEN [kind |-> "ValueError", evts |-> {}]
    ELSE [kind |-> "return",
          delta_v |-> Mul(Mul(Fx(2, 1), v), np_sin(Div(delta_i, Fx(2, 1)))),
          evts |-> {"delta_v"}]

(***************************************************************************)
(* constants/RotationMatrices.py, utils/matrix_ops.py and                  *)
(* constants/conversions/frames/TopocentricHorizon.py.  A matrix is the    *)
(* tuple of its three rows.                                                *)
(***************************************************************************)
Column(M, j) == <<M[1][j], M[2][j], M[3][j]>>
\* matrix_ops.py line 21: matrix.T
invert_rotation(M) == <<Column(M, 1), Column(M, 2), Column(M, 3)>>
\* A @ B of two 3x3 matrices
MatRow(a, B) == <<np_dot(a, Column(B, 1)), np_dot(a, Column(B, 2)),
                  np_dot(a, Column(B, 3))>>
\* matrix_ops.py lines 37-40, for two matrices
combine_rotations(A, B) == <<MatRow(A[1], B), MatRow(A[2], B), MatRow(A[3], B)>>
\* M @ v of a 3x3 matrix and a vector: numpy's matmul raises ValueError when
\* the vector does not have 3 components
Rotate(M, v) ==
    IF Len(v) # 3
    THEN [kind |-> "ValueError", evts |-> {"rotation_matrix"}]
    ELSE [kind |-> "return", val |-> MatVec(M, v),
          evts |-> {"rotation_matrix", "matmul"}]

\* RotationMatrices.py lines 27-31
TopoToEnu(sin_alt, cos_alt, sin_az, cos_az) ==
    << <<Neg(sin_az), Mul(Neg(sin_alt), cos_az), Mul(cos_alt, cos_az)>>,
       <<cos_az, Mul(Neg(sin_alt), sin_az), Mul(cos_alt, sin_az)>>,
       <<0, cos_alt, sin_alt>> >>
\* RotationMatrices.py lines 24-31
create_topo_to_enu_matrix(alt, az) ==
    TopoToEnu(np_sin(alt), np_cos(alt), np_sin(az), np_cos(az))
\* RotationMatrices.py lines 49-56: the same pattern in lat and lon
create_enu_to_ecef_matrix(lat, lon) ==
    TopoToEnu(np_sin(lat), np_cos(lat), np_sin(lon), np_cos(lon))
\* RotationMatrices.py lines 74-78
LstRotation(sin_lst, cos_lst) ==
    << <<cos_lst, Neg(sin_lst), 0>>, <<sin_lst, cos_lst, 0>>, <<0, 0, Scale>> >>
create_lst_rotation_matrix(lst) == LstRotation(np_sin(lst), np_cos(lst))
\* RotationMatrices.py lines 102-112
TopoToHadec(sin_alt, cos_alt, sin_az, cos_az, sin_lat, cos_lat) ==
    << <<Sub(Mul(Mul(sin_lat, cos_az), cos_alt), Mul(sin_alt, cos_lat)),
         Mul(Mul(sin_lat, sin_az), cos_alt),
         Add(Mul(sin_alt, sin_lat), Mul(Mul(cos_lat, cos_az), cos_alt))>>,
       <<Mul(Neg(sin_az), cos_alt),
         Mul(cos_az, cos_alt),
         Mul(sin_az, cos_alt)>>,
       <<Add(Mul(Mul(Neg(cos_lat), cos_az), cos_alt), Mul(sin_alt, sin_lat)),
         Mul(Mul(Neg(cos_lat), sin_az), cos_alt),
         Sub(Mul(sin_alt, cos_lat), Mul(Mul(sin_lat, cos_az), cos_alt))>> >>
\* RotationMatrices.py lines 98-112
create_topo_to_hadec_matrix(alt, az, lat) ==
    TopoToHadec(np_sin(alt), np_cos(alt), np_sin(az), np_cos(az),
                np_sin(lat), np_cos(lat))

\* TopocentricHorizon.py lines 34-36
get_topo_to_gcrf_matrix(alt, az, lat, lst) ==
    combine_rotations(create_lst_rotation_matrix(lst),
                      create_topo_to_hadec_matrix(alt, az, lat))
\* TopocentricHorizon.py lines 58-60
get_topo_to_ecef_matrix(alt, az, lat, lon) ==
    combine_rotations(create_enu_to_ecef_matrix(lat, lon),
                      create_topo_to_enu_matrix(alt, az))
\* TopocentricHorizon.py lines 84-85
topo_to_gcrf(r_topo, alt, az, lat, lst) ==
    Rotate(get_topo_to_gcrf_matrix(alt, az, lat, lst), r_topo)
\* TopocentricHorizon.py lines 109-110
gcrf_to_topo(r_gcrf, alt, az, lat, lst) ==
    Rotate(invert_rotation(get_topo_to_gcrf_matrix(alt, az, lat, lst)), r_gcrf)
\* TopocentricHorizon.py lines 134-135
topo_to_ecef(r_topo, alt, az, lat, lon) ==
    Rotate(get_topo_to_ecef_matrix(alt, az, lat, lon), r_topo)

(***************************************************************************)
(* The inputs the model calls the operations with.                         *)
(***************************************************************************)
\* the largest iteration cap (max_iter) a call is made with
MaxIter == 4

\* positions: on the x axis at distance 1, the zero vector, off-axis at distance
\* 5/4, on the x axis at distance 1/2
R0Set == { Vec(Fx(1, 1), 0, 0), ZeroVec, Vec(Fx(1, 1), Fx(3, 4), 0),
           Vec(Fx(1, 2), 0, 0) }
\* velocities; at |r0| = 1 and mu = 4 they are circular, elliptical, parabolic with
\* a radial component, hyperbolic, and hyperbolic and steeply inbound
V0Set == { Vec(0, Fx(2, 1), 0), Vec(0, Fx(12, 5), 0),
           Vec(Fx(2, 1), Fx(2, 1), 0), Vec(0, Fx(4, 1), 0),
           Vec(Fx(-4, 1), Fx(2, 1), 0) }
DtSet == { 0, Fx(1, 2), Fx(-1, 2), Fx(1, 1) }
TolSet == { Fx(1, 1000), Fx(1, 10), Fx(1, 1) }
BodySet == { "earth", "Earth", "invalid_body" }
\* the mu argument: None, or a value of the caller's
MuArgSet == { [is_None |-> TRUE, val |-> NaN], [is_None |-> FALSE, val |-> Fx(1, 1)] }

\* universal anomalies universal_time_of_flight is evaluated at
ChiSet == { 0, Fx(1, 1), Fx(-3, 4) }
\* targets of time_of_flight_to_position: a quarter turn ahead on the unit circle,
\* the points at true anomaly 90 and 270 degrees and the apoapsis of the
\* elliptical orbit of V0Set, and the starting point itself
RfSet == { Vec(0, Fx(1, 1), 0), Vec(0, Fx(36, 25), 0), Vec(0, Fx(-36, 25), 0),
           Vec(Fx(-18, 7), 0, 0), Vec(Fx(1, 1), 0, 0) }
\* states handed to StateRV.as_coe: inclined elliptical orbits outbound and inbound,
\* prograde and retrograde, a hyperbolic one, a parabolic one at periapsis, a
\* circular equatorial one, a state with a zero position, an elliptical
\* equatorial one at periapsis, and an inclined one just short of periapsis, inbound
StateSet ==
    { [r |-> Vec(Fx(1, 1), 0, 0),              v |-> Vec(0, Fx(9, 5), Fx(8, 5))],
      [r |-> Vec(Fx(1, 1), Fx(3, 4), 0),       v |-> Vec(Fx(-1, 2), Fx(3, 2), Fx(6, 5))],
      [r |-> Vec(Fx(1, 1), Fx(3, 4), Fx(-1, 5)), v |-> Vec(Fx(-3, 2), Fx(-1, 1), Fx(6, 5))],
      [r |-> Vec(Fx(1, 1), Fx(1, 5), Fx(3, 10)), v |-> Vec(Fx(3, 10), Fx(-3, 2), Fx(-6, 5))],
      [r |-> Vec(Fx(-3, 5), Fx(4, 5), Fx(1, 2)), v |-> Vec(Fx(-3, 1), Fx(-1, 1), Fx(-3, 2))],
      [r |-> Vec(Fx(1, 1), 0, 0),              v |-> Vec(0, Fx(2, 1), Fx(2, 1))],
      [r |-> Vec(Fx(1, 1), 0, 0),              v |-> Vec(0, Fx(2, 1), 0)],
      [r |-> ZeroVec,                          v |-> Vec(0, Fx(2, 1), 0)],
      [r |-> Vec(Fx(1, 1), 0, 0),              v |-> Vec(0, Fx(12, 5), 0)],
      [r |-> Vec(Fx(1, 1), 0, 0),              v |-> Vec(Fx(-1, 10000), Fx(9, 5), Fx(8, 5))] }
\* arguments of the Stumpff functions: zero, and both signs from 0.01 to 9
ZSet == { 0, Fx(1, 100), Fx(-1, 100), Fx(1, 1), Fx(-1, 1), Fx(4, 1), Fx(-4, 1),
          Fx(9, 1), Fx(-9, 1) }
\* propagate_two_body: a circular and an elliptical state, durations that are
\* zero, a multiple of the step and not a multiple of it, two step sizes
PropagateStateSet ==
    { [r |-> Vec(Fx(1, 1), 0, 0), v |-> Vec(0, Fx(2, 1), 0)],
      [r |-> Vec(Fx(1, 1), 0, 0), v |-> Vec(0, Fx(12, 5), 0)] }
DurationSet == { 0, Fx(1, 2), Fx(3, 4), Fx(1, 1) }
StepSet == { Fx(1, 4), Fx(1, 2) }
\* circular-orbit radii: negative, zero, and three positive ones
RadiusSet == { Fx(-1, 1), 0, Fx(1, 1), Fx(9, 4), Fx(4, 1) }
\* masses of the central body: negative, zero, the Earth's, a larger one
BodyMassSet == { Fx(-8, 1), 0, EARTH_MASS, Fx(18, 1) }
\* orbital speeds: negative, zero, two positive ones
SpeedSet == { Fx(-1, 1), 0, Fx(3, 2), Fx(15, 2) }
\* inclination changes: negative, zero, inside (0, 2 pi), 2 pi itself, just
\* above it, and 3 pi
InclinationSet ==
    { Fx(-1, 4), 0, Fx(1, 2), HalfPi, Pi, Fx(5, 1), TwoPi, TwoPi + 1, 3 * Pi }
\* vectors given to the frame transforms: two of 3 components, one of 2
TopoVecSet == { Vec(Fx(1, 1), Fx(2, 1), Fx(3, 1)), Vec(Fx(1, 1), 0, 0),
                <<Fx(1, 1), Fx(2, 1)>> }
\* altitudes and latitudes: two within [-pi/2, pi/2], and pi
ElevationSet == { 0, Fx(1, 2), Pi }
\* azimuths, sidereal times and longitudes
AzimuthSet == { 0, Fx(1, 2) }
\* the central bodies a caller of the converters works with
CallerMuSet == { EARTH_GRAVITATIONAL_PARAMETER, JUPITER_GRAVITATIONAL_PARAMETER }
\* the Gauss problem: two position pairs, the transfer angle along the short way,
\* along the long way, and a transfer angle of 0.005 rad; two flight times
GaussR1Set == { Vec(Fx(1, 2), Fx(3, 5), Fx(7, 10)) }
GaussR2Set == { Vec(0, Fx(1, 1), 0), Vec(0, Fx(2, 1), 0) }
GaussNuSet == { Fx(9617, 10000), Fx(53215, 10000), Fx(5, 1000) }
GaussT2Set == { Fx(9667, 10000), Fx(2, 1) }

VARIABLES
    pc,      \* "idle": no call in progress; "newton": universal_kepler is in its
             \* Newton loop; "gauss": SolutionViaUniversalVariables is in its
             \* loop; "done": the last call has ended
    op,      \* the operation called
    args,    \* its arguments
    loc,     \* the locals of the call in progress, during and after its loop
    evts,    \* what the call has evaluated so far (a set of step names)
    result,  \* how the call ended: [kind |-> "return" or the exception's name, ...]
    caller,  \* the objects the caller passed (arrays, StateRV), as they are now
    tables   \* the module-level gravitational parameters, as they are now

vars == <<pc, op, args, loc, evts, result, caller, tables>>

\* the module-level tables and constants as the modules define them
ModuleTables ==
    [CELESTIAL_BODIES_KM |-> CELESTIAL_BODIES_KM,
     CELESTIAL_BODIES |-> CELESTIAL_BODIES,
     MU_EARTH |-> MU_EARTH]
NoObjects == [none |-> TRUE]
\* a callee that advances the state it was given in place
CallerObjectsAfter_advances_state(a) ==
    IF "state" \in DOMAIN a
    THEN [a EXCEPT !.state = rk4_step(a.state, a.dt)]
    ELSE a
\* the caller's objects once the callee has taken them: every operation works
\* on copies (np.array(r0, dtype=float), state.r.copy()) or builds new arrays,
\* and none assigns to an element or an attribute of an argument
CallerObjectsAfter(a) == a

NoLoc == [q |-> [r0_norm |-> 0, vr0 |-> 0, alpha |-> 0], mu |-> 0,
          x |-> 0, ratio |-> 0, it |-> 0, C |-> 0, S |-> 0, bound |-> FALSE]
NoResult == [kind |-> "none"]
Raise(name) == [kind |-> name]

Init ==
    /\ pc = "idle"
    /\ op = "none"
    /\ args = [none |-> TRUE]
    /\ loc = NoLoc
    /\ evts = {}
    /\ result = NoResult
    /\ caller = NoObjects
    /\ tables = ModuleTables

(***************************************************************************)
(* universal_kepler(r0, v0, dt, body, mu, tol, max_iter)                   *)
(***************************************************************************)
\* lines 72-96: the lookup of mu, the orbital quantities, the initial guess
universal_kepler_enter(a, m) ==
    /\ op' = "universal_kepler"
    /\ args' = a
    /\ caller' = CallerObjectsAfter(a)
    /\ UNCHANGED tables
    /\ IF m.err
       THEN /\ pc' = "done"
            /\ result' = Raise("ValueError")
            /\ evts' = {"table_lookup"}
            /\ loc' = NoLoc
       ELSE /\ pc' = "newton"
            /\ result' = NoResult
            /\ evts' = Computed(m)
            /\ loc' = NewtonStart(KeplerSetup(a.r0, a.v0, m.mu), m.mu, a.dt)

universal_kepler_call ==
    /\ pc = "idle"
    /\ \E r0 \in R0Set, v0 \in V0Set, dt \in DtSet, body \in BodySet,
          mu \in MuArgSet, tol \in TolSet, max_iter \in 0 .. MaxIter :
          universal_kepler_enter(
              [r0 |-> r0, v0 |-> v0, dt |-> dt, body |-> body,
               mu |-> mu, tol |-> tol, max_iter |-> max_iter],
              ResolveMu(tables.CELESTIAL_BODIES_KM, body, mu.is_None, mu.val))

\* lines 97-105: one pass of the while loop
universal_kepler_iterate ==
    /\ pc = "newton"
    /\ NewtonContinues(loc, args.tol, args.max_iter)
    /\ loc' = NewtonBody(loc.q, loc.mu, args.dt, loc)
    /\ evts' = evts \cup {"newton_iteration"}
    /\ UNCHANGED <<pc, op, args, result, caller, tables>>

\* line 123: return r, v
ReturnState(s) == [kind |-> "return", r |-> s.r, v |-> s.v]

\* lines 107-123: the loop has ended; the cap check, then the propagated state.
\* Reading C or S when no pass of the loop has bound them is Python's
\* UnboundLocalError.
universal_kepler_finish ==
    /\ pc = "newton"
    /\ ~NewtonContinues(loc, args.tol, args.max_iter)
    /\ pc' = "done"
    /\ IF CapExceeded(loc, args.max_iter)
       THEN result' = Raise("RuntimeError") /\ evts' = evts
       ELSE IF ~loc.bound
            THEN result' = Raise("UnboundLocalError") /\ evts' = evts
            ELSE /\ result' = ReturnState(Lagrange(loc.q, loc.mu, args.dt,
                                                   args.r0, args.v0, loc))
                 /\ evts' = evts \cup {"lagrange"}
    /\ UNCHANGED <<op, args, loc, caller, tables>>

\* a call that is one step of the model ends here: res is what it returns or
\* raises, with what it evaluated on the way
Finish(name, a, res) ==
    /\ pc' = "done"
    /\ op' = name
    /\ args' = a
    /\ loc' = NoLoc
    /\ evts' = res.evts
    /\ result' = [k \in DOMAIN res \ {"evts"} |-> res[k]]
    /\ caller' = CallerObjectsAfter(a)
    /\ UNCHANGED tables

(***************************************************************************)
(* stumpff_C(z) and stumpff_S(z)                                           *)
(***************************************************************************)
stumpff_call ==
    /\ pc = "idle"
    /\ \E z \in ZSet :
          Finish("stumpff", [z |-> z],
                 [kind |-> "return", C |-> stumpff_C(z), S |-> stumpff_S(z),
                  evts |-> {}])

(***************************************************************************)
(* propagate_two_body(state, duration, dt)                                 *)
(***************************************************************************)
propagate_two_body_call ==
    /\ pc = "idle"
    /\ \E state \in PropagateStateSet, duration \in DurationSet, dt \in StepSet :
          Finish("propagate_two_body",
                 [state |-> state, duration |-> duration, dt |-> dt],
                 [kind |-> "return",
                  traj |-> propagate_two_body(state, duration, dt),
                  evts |-> {"rk4"}])

(***************************************************************************)
(* hohmann_delta_v(r1, r2) of maneuvers.py and                             *)
(* hohmann_delta_v(r1, r2, body_mass) of maneuvers/Hohmann.py              *)
(***************************************************************************)
hohmann_delta_v_call ==
    /\ pc = "idle"
    /\ \E r1 \in RadiusSet, r2 \in RadiusSet :
          Finish("hohmann_delta_v", [r1 |-> r1, r2 |-> r2],
                 hohmann_delta_v(r1, r2))

Hohmann_hohmann_delta_v_call ==
    /\ pc = "idle"
    /\ \E r1 \in RadiusSet, r2 \in RadiusSet, body_mass \in BodyMassSet :
          Finish("Hohmann.hohmann_delta_v",
                 [r1 |-> r1, r2 |-> r2, body_mass |-> body_mass],
                 Hohmann_hohmann_delta_v(r1, r2, body_mass))

(***************************************************************************)
(* plane_change_delta_v(v, delta_i)                                        *)
(***************************************************************************)
plane_change_delta_v_call ==
    /\ pc = "idle"
    /\ \E v \in SpeedSet, delta_i \in InclinationSet :
          Finish("plane_change_delta_v", [v |-> v, delta_i |-> delta_i],
                 plane_change_delta_v(v, delta_i))

(***************************************************************************)
(* topo_to_gcrf, gcrf_to_topo and topo_to_ecef                             *)
(***************************************************************************)
topo_to_gcrf_call ==
    /\ pc = "idle"
    /\ \E r \in TopoVecSet, alt \in ElevationSet, az \in AzimuthSet,
          lat \in ElevationSet, lst \in AzimuthSet :
          Finish("topo_to_gcrf",
                 [r |-> r, alt |-> alt, az |-> az, lat |-> lat, lst |-> lst],
                 topo_to_gcrf(r, alt, az, lat, lst))

\* the caller takes the vector topo_to_gcrf returned back to the topocentric
\* frame, with the same angles
gcrf_to_topo_call ==
    /\ pc = "done"
    /\ op = "topo_to_gcrf"
    /\ result.kind = "return"
    /\ Finish("gcrf_to_topo",
              [r |-> result.val, original |-> args.r, alt |-> args.alt,
               az |-> args.az, lat |-> args.lat, lst |-> args.lst],
              gcrf_to_topo(result.val, args.alt, args.az, args.lat, args.lst))

topo_to_ecef_call ==
    /\ pc = "idle"
    /\ \E r \in TopoVecSet, alt \in ElevationSet, az \in AzimuthSet,
          lat \in ElevationSet, lon \in AzimuthSet :
          Finish("topo_to_ecef",
                 [r |-> r, alt |-> alt, az |-> az, lat |-> lat, lon |-> lon],
                 topo_to_ecef(r, alt, az, lat, lon))

(***************************************************************************)
(* universal_time_of_flight(chi, r0, v0, body, mu)                         *)
(***************************************************************************)
universal_time_of_flight_call ==
    /\ pc = "idle"
    /\ \E chi \in ChiSet, r0 \in R0Set, v0 \in V0Set, body \in BodySet, mu \in MuArgSet :
          Finish("universal_time_of_flight",
                 [chi |-> chi, r0 |-> r0, v0 |-> v0, body |-> body, mu |-> mu],
                 universal_time_of_flight(chi, r0, v0, body, mu.is_None, mu.val))

(***************************************************************************)
(* time_of_flight_to_position(r0, v0, rf, body, mu)                        *)
(***************************************************************************)
time_of_flight_to_position_call ==
    /\ pc = "idle"
    /\ \E r0 \in R0Set, v0 \in V0Set, rf \in RfSet, body \in BodySet, mu \in MuArgSet :
          Finish("time_of_flight_to_position",
                 [r0 |-> r0, v0 |-> v0, rf |-> rf, body |-> body, mu |-> mu],
                 time_of_flight_to_position(r0, v0, rf, body, mu.is_None, mu.val))

(***************************************************************************)
(* StateRV.as_coe() and ClassicalOE.as_rv()                                *)
(***************************************************************************)
\* as_coe takes no argument but self: mu is the gravitational parameter of the
\* body the caller's state orbits, which the call has no parameter for
as_coe_call ==
    /\ pc = "idle"
    /\ \E self \in StateSet, mu \in CallerMuSet :
          Finish("as_coe", [self |-> self, mu |-> mu],
                 [kind |-> "return", val |-> as_coe(self),
                  evts |-> {"orbital_quantities", "division_by_norm"}])

\* coe.as_rv() on the elements the previous call returned (original.as_coe().as_rv())
as_rv_call ==
    /\ pc = "done"
    /\ op = "as_coe"
    /\ result.kind = "return"
    /\ Finish("as_rv", [self |-> result.val, original |-> args.self, mu |-> args.mu],
              [kind |-> "return", val |-> as_rv(result.val),
               evts |-> evts \cup {"as_rv"}])

(***************************************************************************)
(* GaussProblem.SolutionViaUniversalVariables(r1, r2, t1, t2, nu)          *)
(***************************************************************************)
\* the loop's locals, without the two error flags
GaussLoc(l) == [k \in DOMAIN l \ {"aux_err", "tof_err"} |-> l[k]]

\* lines 22-45: up to the loop, l being the locals for the trial value z = 0.
\* The first getAuxiliaryVariable is inside try/except ValueError, whose handler
\* prints the error and returns two NaN vectors; getTimeOfFlight is outside it.
SolutionViaUniversalVariables_enter(a, l) ==
    /\ op' = "SolutionViaUniversalVariables"
    /\ args' = a
    /\ caller' = CallerObjectsAfter(a)
    /\ UNCHANGED tables
    /\ IF l.aux_err
       THEN /\ pc' = "done"
            /\ result' = NaNPair
            /\ evts' = {"ValueError_caught"}
            /\ loc' = NoLoc
       ELSE IF l.tof_err
       THEN /\ pc' = "done"
            /\ result' = Raise("ValueError")
            /\ evts' = {}
            /\ loc' = NoLoc
       ELSE /\ pc' = "gauss"
            /\ result' = NoResult
            /\ evts' = {}
            /\ loc' = GaussLoc(l)

SolutionViaUniversalVariables_call ==
    /\ pc = "idle"
    /\ \E r1 \in GaussR1Set, r2 \in GaussR2Set, nu \in GaussNuSet, t2 \in GaussT2Set :
          SolutionViaUniversalVariables_enter(
              [r1 |-> r1, r2 |-> r2, t1 |-> 0, t2 |-> t2, nu |-> nu],
              GaussTrial(r1, r2, getConstantA(r1, r2, nu), 0, 0))

\* the locals l after a pass of the loop: an error raised by
\* getAuxiliaryVariable or getTimeOfFlight inside the loop is not caught
GaussPassed(l) ==
    IF l.aux_err \/ l.tof_err
    THEN /\ pc' = "done"
         /\ result' = Raise("ValueError")
         /\ UNCHANGED loc
    ELSE /\ loc' = GaussLoc(l)
         /\ UNCHANGED <<pc, result>>

\* lines 46-64: one pass of the loop that does not break
SolutionViaUniversalVariables_iterate ==
    /\ pc = "gauss"
    /\ GaussContinues(loc, args)
    /\ ~GaussBreaks(loc)
    /\ GaussPassed(GaussPass(loc, args))
    /\ UNCHANGED <<op, args, evts, caller, tables>>

\* lines 66-70: after the loop
SolutionViaUniversalVariables_finish ==
    /\ pc = "gauss"
    /\ ~GaussContinues(loc, args) \/ GaussBreaks(loc)
    /\ pc' = "done"
    /\ result' = GaussResult(loc, args)
    /\ UNCHANGED <<op, args, loc, evts, caller, tables>>

\* the caller has the result; the next call starts from scratch
call_return ==
    /\ pc = "done"
    /\ pc' = "idle"
    /\ op' = "none"
    /\ args' = [none |-> TRUE]
    /\ loc' = NoLoc
    /\ evts' = {}
    /\ result' = NoResult
    /\ caller' = NoObjects
    /\ UNCHANGED tables

Next ==
    \/ stumpff_call
    \/ universal_kepler_call
    \/ universal_kepler_iterate
    \/ universal_kepler_finish
    \/ propagate_two_body_call
    \/ topo_to_gcrf_call
    \/ gcrf_to_topo_call
    \/ topo_to_ecef_call
    \/ plane_change_delta_v_call
    \/ hohmann_delta_v_call
    \/ Hohmann_hohmann_delta_v_call
    \/ universal_time_of_flight_call
    \/ time_of_flight_to_position_call
    \/ as_coe_call
    \/ as_rv_call
    \/ SolutionViaUniversalVariables_call
    \/ SolutionViaUniversalVariables_iterate
    \/ SolutionViaUniversalVariables_finish
    \/ call_return

Spec == Init /\ [][Next]_vars

(***************************************************************************)
(* The claims.                                                             *)
(***************************************************************************)
\* the operations that take a body name and an optional mu
LookupOps == {"universal_kepler", "universal_time_of_flight", "time_of_flight_to_position"}
UnknownBody(body) == Lower(body) \notin DOMAIN CELESTIAL_BODIES
\* the call has ended (pc = "done") and was a call of the operation name
Ended(name) == pc = "done" /\ op = name

\* C1: universal_kepler never returns an unconverged state: when the Newton loop
\* has made max_iter passes and the last step |F/F'| is still greater than tol,
\* the call raises RuntimeError; and a call that returns (r, v) has a last step
\* that is not greater than tol.
C1_CapRaisesRuntimeError ==
    Ended("universal_kepler") =>
        /\ (loc.it = args.max_iter /\ Gt(Abs(loc.ratio), args.tol))
               => result.kind = "RuntimeError"
        /\ result.kind = "return" => ~Gt(Abs(loc.ratio), args.tol)
\* a call with max_iter = 1 whose first step exceeds tol has raised RuntimeError
C1_Witness ==
    /\ Ended("universal_kepler")
    /\ args.max_iter = 1 /\ loc.it = 1
    /\ Gt(Abs(loc.ratio), args.tol)
    /\ result.kind = "RuntimeError"

\* C2: universal_kepler raises the convergence RuntimeError only when the solve did
\* not converge: if the step |F/F'| is at most tol after pass k of the loop,
\* 1 <= k <= max_iter (the max_iter-th pass included), the call returns the state.
C2_ConvergedReturns ==
    (Ended("universal_kepler") /\ loc.it >= 1 /\ loc.it <= args.max_iter
        /\ Le(Abs(loc.ratio), args.tol))
        => result.kind = "return"

\* C3: in the three operations that look mu up, a call with mu = None and a body
\* name that is no key of the table raises ValueError, and nothing has been
\* computed from r0, v0 or rf by then (the call never enters the Newton loop).
C3_UnknownBodyRaisesFirst ==
    (pc # "idle" /\ op \in LookupOps /\ args.mu.is_None /\ UnknownBody(args.body))
        => /\ pc = "done"
           /\ result.kind = "ValueError"
           /\ evts = {"table_lookup"}
C3_Witness ==
    /\ Ended("time_of_flight_to_position")
    /\ args.mu.is_None /\ args.body = "invalid_body"
    /\ result.kind = "ValueError"

\* the mu a finished or running call computes with: universal_kepler keeps it in
\* its locals, the two time-of-flight functions return the value computed from it
UsesSuppliedMu ==
    /\ op = "universal_kepler" => loc.mu = args.mu.val
    /\ op = "universal_time_of_flight" =>
           result = [kind |-> "return",
                     val |-> UniversalTof(args.chi, args.r0, args.v0, args.mu.val)]
    /\ op = "time_of_flight_to_position" =>
           result = [kind |-> "return",
                     val |-> TofToPosition(args.r0, args.v0, args.rf, args.mu.val)]

\* C4: when the caller supplies mu, the three operations never consult the body
\* table: whatever the body name, no lookup is made, no lookup error is raised,
\* and the computation uses the supplied mu.
C4_SuppliedMuSkipsLookup ==
    (pc # "idle" /\ op \in LookupOps /\ ~args.mu.is_None)
        => /\ "table_lookup" \notin evts
           /\ result.kind # "ValueError"
           /\ UsesSuppliedMu
C4_Witness ==
    /\ Ended("universal_kepler")
    /\ ~args.mu.is_None /\ args.body = "invalid_body"
    /\ result.kind = "return"
    /\ loc.mu = args.mu.val

\* C5: a zero position vector is rejected: universal_kepler, the two time-of-flight
\* functions and StateRV.as_coe called with r0 = (0, 0, 0) end with an error, before
\* any Newton iteration or division by the norm of the position, and return no value.
C5_ZeroPositionRejected ==
    /\ (pc # "idle" /\ op \in LookupOps /\ args.r0 = ZeroVec)
           => /\ pc = "done"
              /\ result.kind # "return"
              /\ "division_by_norm" \notin evts
              /\ "newton_iteration" \notin evts
    /\ (Ended("as_coe") /\ args.self.r = ZeroVec)
           => /\ result.kind # "return"
              /\ "division_by_norm" \notin evts
\* whether the getAuxiliaryVariable of lines 31-32 (trial value z = 0) raises for
\* the arguments a of SolutionViaUniversalVariables
FirstAuxiliaryRaises(a) ==
    GaussTrial(a.r1, a.r2, getConstantA(a.r1, a.r2, a.nu), 0, 0).aux_err

\* C6: no core operation catches an error and returns a NaN or default result in
\* its place: a ValueError raised by getAuxiliaryVariable or getTimeOfFlight inside
\* SolutionViaUniversalVariables, before or inside its loop, reaches the caller.
C6_ErrorsReachCaller ==
    /\ (Ended("SolutionViaUniversalVariables") /\ FirstAuxiliaryRaises(args))
           => result.kind = "ValueError"
    /\ pc = "done" => "ValueError_caught" \notin evts

\* the mu a call of a time-of-flight function with the arguments a computes with
CallMu(a) == ResolveMu(CELESTIAL_BODIES, a.body, a.mu.is_None, a.mu.val).mu
\* the residual F(chi) of universal_kepler's Newton loop (line 102) for the time dt
ResidualAt(q, mu, dt, chi) ==
    Residual(q, mu, dt, chi, stumpff_C(Mul(q.alpha, Sq(chi))),
                             stumpff_S(Mul(q.alpha, Sq(chi))))
ResidualOfCall(a, mu, dt) == ResidualAt(KeplerSetup(a.r0, a.v0, mu), mu, dt, a.chi)
\* the rounding of the residual's sums: 0.0005
ResidualTolerance == Fx(5, 10000)

\* C7: universal_time_of_flight is the forward map of the propagator's residual:
\* the dt it returns for (chi, r0, v0, mu) is the time for which the residual F(chi)
\* of universal_kepler's Newton loop is zero.
C7_ReturnedTimeZeroesResidual ==
    (Ended("universal_time_of_flight") /\ result.kind = "return"
        /\ IsFinite(result.val))
        => Le(Abs(ResidualOfCall(args, CallMu(args), result.val)), ResidualTolerance)

\* the orbit of a call of time_of_flight_to_position with the arguments a
CallOrbit(a) == OrbitShape(a.r0, a.v0, CallMu(a))
OnEllipticalBranch(a) == ConicBranch(CallOrbit(a).energy) = "elliptical"

\* C8: on the elliptical branch time_of_flight_to_position reports the forward time
\* of flight: the returned dt is >= 0 and less than one orbital period.
C8_EllipticalForwardTime ==
    (Ended("time_of_flight_to_position") /\ result.kind = "return"
        /\ OnEllipticalBranch(args))
        => /\ Ge(result.val, 0)
           /\ Lt(result.val, OrbitalPeriod(CallOrbit(args), CallMu(args)))

\* a circular orbit: r0 perpendicular to v0 and |v0|^2 = mu / |r0|
IsCircular(r0, v0, mu) ==
    /\ r0 # ZeroVec
    /\ np_dot(r0, v0) = 0
    /\ np_dot(v0, v0) = Div(mu, np_linalg_norm(r0))
\* rf is on the circle of r0 a quarter turn ahead in the direction of motion
QuarterTurnAhead(r0, v0, rf) ==
    /\ np_dot(r0, rf) = 0
    /\ np_dot(rf, rf) = np_dot(r0, r0)
    /\ np_cross(rf, v0) = ZeroVec
    /\ Gt(np_dot(rf, v0), 0)
\* the rounding of a quarter period: 0.002
QuarterTolerance == Fx(2, 1000)

\* C9: for a circular orbit and a target a quarter turn ahead,
\* time_of_flight_to_position returns a defined number, one quarter of the period.
C9_CircularQuarterPeriod ==
    (Ended("time_of_flight_to_position") /\ result.kind = "return"
        /\ IsCircular(args.r0, args.v0, CallMu(args))
        /\ QuarterTurnAhead(args.r0, args.v0, args.rf))
        => /\ IsFinite(result.val)
           /\ Le(Abs(Sub(result.val,
                         Div(OrbitalPeriod(CallOrbit(args), CallMu(args)), Fx(4, 1)))),
                 QuarterTolerance)

\* e > 0, 0 < i < pi and a non-zero angular momentum
NonDegenerate(coe, s) ==
    /\ Gt(coe.e, 0)
    /\ Gt(coe.i, 0) /\ Lt(coe.i, Pi)
    /\ np_cross(s.r, s.v) # ZeroVec
\* the floating-point tolerance of the round trip at the model's resolution: 0.005
RoundTripTolerance == Fx(5, 1000)
VecClose(a, b) ==
    \A k \in 1 .. 3 : IsFinite(a[k]) /\ Le(Abs(Sub(a[k], b[k])), RoundTripTolerance)

\* C10: for every non-degenerate state s, s.as_coe().as_rv() reproduces the position
\* and the velocity of s.
C10_RoundTrip ==
    (Ended("as_rv") /\ NonDegenerate(args.self, args.original))
        => /\ VecClose(result.val.r, args.original.r)
           /\ VecClose(result.val.v, args.original.v)

\* the eccentricity and the node vector as_coe computes for the state s
EccentricityOf(s) == as_coe(s).e
NodeVectorOf(s) == np_cross(Vec(0, 0, Scale), np_cross(s.r, s.v))
\* a circular orbit (e = 0) or an equatorial one (n = 0) about a non-zero position
DegenerateOrbit(s) ==
    /\ s.r # ZeroVec
    /\ EccentricityOf(s) = 0 \/ NodeVectorOf(s) = ZeroVec

\* C11: degenerate orbits are no error and give no undefined result in as_coe: for
\* a circular orbit and for an equatorial orbit the call returns elements whose argp
\* and nu are defined numbers, with argp = 0 when e = 0.
C11_DegenerateDefined ==
    (Ended("as_coe") /\ DegenerateOrbit(args.self))
        => /\ result.kind = "return"
           /\ IsFinite(result.val.argp)
           /\ IsFinite(result.val.nu)
           /\ result.val.e = 0 => result.val.argp = 0

\* lo <= a < hi
InHalfOpen(a, lo, hi) == Ge(a, lo) /\ Lt(a, hi)

\* C12: the elements as_coe returns for a non-degenerate state have i in [0, pi]
\* and raan, argp and nu in [0, 2 pi): the quadrant corrections never give 2 pi.
C12_AnglesInRange ==
    (Ended("as_coe") /\ NonDegenerate(result.val, args.self))
        => /\ Ge(result.val.i, 0) /\ Le(result.val.i, Pi)
           /\ InHalfOpen(result.val.raan, 0, TwoPi)
           /\ InHalfOpen(result.val.argp, 0, TwoPi)
           /\ InHalfOpen(result.val.nu, 0, TwoPi)

\* a = 1 / (2/|r| - |v|^2/mu) and e = |(v x h)/mu - r/|r|| of the state s about a
\* body of gravitational parameter mu
SemiMajorAxisAbout(s, mu) ==
    Div(Scale, Sub(Div(Fx(2, 1), np_linalg_norm(s.r)),
                   Div(Sq(np_linalg_norm(s.v)), mu)))
EccentricityAbout(s, mu) == OrbitShape(s.r, s.v, mu).e

\* C13: the conversions are functions of the state and of the caller's mu: the
\* elements as_coe returns for a state are those of its orbit about the caller's
\* central body, so a and e differ between two bodies.
C13_ElementsFollowCallerMu ==
    (Ended("as_coe") /\ args.self.r # ZeroVec)
        => /\ result.val.a = SemiMajorAxisAbout(args.self, args.mu)
           /\ result.val.e = EccentricityAbout(args.self, args.mu)

\* C14: stumpff_C and stumpff_S are total: for every z one branch gives a defined
\* number, no branch divides by zero (no infinity, no NaN), and at z = 0 the
\* results are exactly 1/2 and 1/6.
C14_StumpffTotal ==
    Ended("stumpff")
        => /\ result.kind = "return"
           /\ IsFinite(result.C) /\ IsFinite(result.S)
           /\ args.z = 0 => (result.C = Fx(1, 2) /\ result.S = Fx(1, 6))
           /\ args.z # 0 => (Gt(result.C, 0) /\ Gt(result.S, 0))
C14_Witness ==
    /\ Ended("stumpff")
    /\ args.z = 0
    /\ result.C = Fx(1, 2) /\ result.S = Fx(1, 6)

\* |v|^2 / 2 - mu / |r| and |r x v|
SpecificEnergy(r, v, mu) ==
    Sub(Div(np_dot(v, v), Fx(2, 1)), Div(mu, np_linalg_norm(r)))
AngularMomentum(r, v) == np_linalg_norm(np_cross(r, v))
\* how far apart two values of a conserved quantity may lie at the resolution
\* of the model's numbers and with the tolerances of TolSet
ConservationTol == Fx(1, 10)
Conserved(a, b) == Le(Abs(Sub(a, b)), ConservationTol)
\* the tightest tolerance a call is made with
TightTol == Fx(1, 1000)
\* a call on an elliptical or hyperbolic state with dt # 0 and the tightest
\* tolerance that returned, the Stumpff values of its last pass within the range
\* of the model's numbers
ReturnedConic ==
    /\ Ended("universal_kepler") /\ result.kind = "return"
    /\ args.tol = TightTol
    /\ args.r0 # ZeroVec /\ loc.q.alpha # 0 /\ args.dt # 0
    /\ loc.C \notin {PInf, NInf} /\ loc.S \notin {PInf, NInf}
\* C15: the state universal_kepler returns for an elliptical or hyperbolic
\* input and a positive or negative dt has the specific orbital energy and the
\* angular-momentum magnitude of the input state.
C15_EnergyMomentumConserved ==
    ReturnedConic
        => /\ Conserved(SpecificEnergy(result.r, result.v, loc.mu),
                        SpecificEnergy(args.r0, args.v0, loc.mu))
           /\ Conserved(AngularMomentum(result.r, result.v),
                        AngularMomentum(args.r0, args.v0))

\* C17: the Newton loop of universal_kepler makes at most max_iter passes (the
\* counter it never exceeds max_iter), and the call then ends: every step of a
\* call in its loop is one more pass, which counts it up by one, or the end of
\* the call, returning or raising. (The loop is never stuck: a pass needs the
\* loop condition, the end needs its negation.)
C17_NewtonBounded ==
    /\ [](op = "universal_kepler" => loc.it <= args.max_iter)
    /\ [][pc = "newton"
            => \/ pc' = "newton" /\ loc'.it = loc.it + 1
               \/ pc' = "done" /\ result'.kind \in {"return", "RuntimeError",
                                                    "UnboundLocalError"}]_vars
C17_Witness ==
    /\ Ended("universal_kepler")
    /\ args.max_iter = MaxIter
    /\ loc.it = args.max_iter
    /\ "newton_iteration" \in evts
    /\ result.kind = "RuntimeError"

\* the time of the last element of a trajectory sampled every dt from t = 0
LastSampleTime(traj, dt) == (Len(traj) - 1) * dt
\* C18: propagate_two_body returns the states at t = 0, dt, 2 dt, ... up to
\* duration: element 0 is the initial state, each element is one RK4 step of
\* size dt after the one before it, and the time of the last element does not
\* exceed duration.
C18_SampledUpToDuration ==
    Ended("propagate_two_body")
        => /\ result.traj[1] = args.state
           /\ \A k \in 1 .. Len(result.traj) - 1 :
                  result.traj[k + 1] = rk4_step(result.traj[k], args.dt)
           /\ LastSampleTime(result.traj, args.dt) <= args.duration

NonPositiveArgument ==
    \/ args.r1 <= 0
    \/ args.r2 <= 0
    \/ op = "Hohmann.hohmann_delta_v" /\ args.body_mass <= 0
\* C19: both versions of hohmann_delta_v raise ValueError exactly when r1 <= 0
\* or r2 <= 0 (or, in maneuvers/Hohmann.py, body_mass <= 0), and they raise it
\* before they have computed anything.
C19_InvalidInputRejected ==
    (Ended("hohmann_delta_v") \/ Ended("Hohmann.hohmann_delta_v"))
        => /\ result.kind = "ValueError" <=> NonPositiveArgument
           /\ result.kind = "ValueError" => evts = {}
           /\ result.kind \in {"ValueError", "return"}
C19_Witness ==
    /\ Ended("Hohmann.hohmann_delta_v")
    /\ args.r1 = 0 /\ args.r2 > 0 /\ args.body_mass > 0
    /\ result.kind = "ValueError"

\* C20: a Hohmann transfer to the same orbit costs nothing: hohmann_delta_v(r, r)
\* of maneuvers/Hohmann.py returns dv1 = 0, dv2 = 0, dv_total = 0 and
\* a_transfer = r.
C20_SameOrbitCostsNothing ==
    (Ended("Hohmann.hohmann_delta_v") /\ result.kind = "return"
        /\ args.r1 = args.r2)
        => /\ result.dv1 = 0 /\ result.dv2 = 0 /\ result.dv_total = 0
           /\ result.a_transfer = args.r1

\* the dv_total of the transfer in the opposite direction about the same body
ReverseTotal(a) == Hohmann_hohmann_delta_v(a.r2, a.r1, a.body_mass).dv_total
\* C21: lowering an orbit costs the same total delta-v as raising it: the
\* dv_total of hohmann_delta_v(r1, r2) of maneuvers/Hohmann.py equals that of
\* hohmann_delta_v(r2, r1).
C21_ReverseCostsTheSame ==
    (Ended("Hohmann.hohmann_delta_v") /\ result.kind = "return")
        => result.dv_total = ReverseTotal(args)

\* the values a returned result holds, by name
ReturnedValues == DOMAIN result \ {"kind"}
\* C22: for valid input hohmann_delta_v of maneuvers/Hohmann.py returns
\* exactly the four values dv1, dv2, dv_total and a_transfer, and a_transfer is
\* (r1 + r2) / 2.
C22_ReturnsFourValues ==
    (Ended("Hohmann.hohmann_delta_v") /\ result.kind = "return")
        => /\ ReturnedValues = {"dv1", "dv2", "dv_total", "a_transfer"}
           /\ result.a_transfer = Div(Add(args.r1, args.r2), Fx(2, 1))

\* C23: plane_change_delta_v raises ValueError exactly when v <= 0 or delta_i
\* lies outside [0, 2 pi]; an accepted input returns 2 v sin(delta_i / 2), which
\* is at least 0 (and at most 2 v) and is 0 when delta_i = 0.
C23_PlaneChangeChecked ==
    Ended("plane_change_delta_v")
        => /\ result.kind \in {"ValueError", "return"}
           /\ result.kind = "ValueError"
                  <=> (args.v <= 0 \/ args.delta_i < 0 \/ args.delta_i > TwoPi)
           /\ result.kind = "return"
                  => /\ Ge(result.delta_v, 0)
                     /\ Le(result.delta_v, 2 * args.v)
                     /\ args.delta_i = 0 => result.delta_v = 0
                     /\ args.delta_i = Pi => result.delta_v = 2 * args.v
C23_Witness ==
    /\ Ended("plane_change_delta_v")
    /\ args.v > 0 /\ args.delta_i = TwoPi
    /\ result.kind = "return"

\* C24: gcrf_to_topo(topo_to_gcrf(r, alt, az, lat, lst), alt, az, lat, lst)
\* gives r back, for every vector r of 3 components and all angles.
C24_TopoGcrfRoundTrip ==
    (Ended("gcrf_to_topo") /\ result.kind = "return")
        => VecClose(result.val, args.original)

\* an elevation angle (altitude, latitude) outside [-pi/2, pi/2]
OutOfRange(angle) == angle < -HalfPi \/ angle > HalfPi
\* C25: the frame transforms raise ValueError and return no vector when
\* topo_to_gcrf is given an altitude outside [-pi/2, pi/2], topo_to_ecef a
\* latitude outside [-pi/2, pi/2], or either a vector that does not have 3
\* components.
C25_FrameInputRejected ==
    /\ (Ended("topo_to_gcrf") /\ (OutOfRange(args.alt) \/ Len(args.r) # 3))
           => result.kind = "ValueError"
    /\ (Ended("topo_to_ecef") /\ (OutOfRange(args.lat) \/ Len(args.r) # 3))
           => result.kind = "ValueError"

\* the tolerance 1e-8 of the branch test, at the model's resolution
EnergyTolerance == FxCeil(1, 100000000)
FormulaSteps == {"barker", "kepler_elliptical", "kepler_hyperbolic"}
\* the formula the claim names for the energy
FormulaFor(energy, steps) ==
    /\ Cardinality(steps \cap FormulaSteps) = 1
    /\ "barker" \in steps <=> Lt(Abs(energy), EnergyTolerance)
    /\ "kepler_elliptical" \in steps <=> Le(energy, Neg(EnergyTolerance))
    /\ "kepler_hyperbolic" \in steps <=> Ge(energy, EnergyTolerance)
\* the value of Barker's equation or of the hyperbolic Kepler equation, as it is
BarkerValue(o, mu, f0, ff) ==
    ParabolicTof(o, mu, np_tan(Div(f0, Fx(2, 1))), np_tan(Div(ff, Fx(2, 1))))
HyperbolicValue(o, mu, f0, ff) ==
    HyperbolicTof(o, mu, HyperbolicAnomaly(o.e, f0), HyperbolicAnomaly(o.e, ff))
UnwrappedValue(o, mu, a, steps) ==
    IF "barker" \in steps
    THEN BarkerValue(o, mu, true_anomaly(o, a.r0), true_anomaly(o, a.rf))
    ELSE HyperbolicValue(o, mu, true_anomaly(o, a.r0), true_anomaly(o, a.rf))
\* C26: time_of_flight_to_position evaluates exactly one of the three formulas:
\* Barker's equation iff |energy| < 1e-8, the elliptical Kepler equation iff
\* energy <= -1e-8, the hyperbolic one iff energy >= 1e-8; the period is added
\* on the elliptical branch only, and a parabolic or hyperbolic result is the
\* value of its formula, whatever its sign.
C26_OneFormulaPerConic ==
    (Ended("time_of_flight_to_position") /\ result.kind = "return")
        => /\ FormulaFor(CallOrbit(args).energy, evts)
           /\ "period_added" \in evts => "kepler_elliptical" \in evts
           /\ "kepler_elliptical" \notin evts
                 => result.val = UnwrappedValue(CallOrbit(args), CallMu(args), args, evts)
C26_Witness ==
    /\ Ended("time_of_flight_to_position")
    /\ result.kind = "return"
    /\ "kepler_hyperbolic" \in evts
    /\ Lt(result.val, 0)

\* universal_kepler has computed its seed and not yet tested the loop condition
Seeded == op = "universal_kepler" /\ pc = "newton" /\ loc.it = 0
\* C27: for alpha <= 0 and dt # 0 the seed of universal_kepler is a finite
\* number whose sign is the sign of dt.
C27_SeedFiniteAndSigned ==
    (Seeded /\ Le(loc.q.alpha, 0) /\ args.dt # 0)
        => /\ IsFinite(loc.x)
           /\ np_sign(loc.x) = np_sign(args.dt)

\* C28: the Stumpff values C and S entering the Lagrange coefficients of
\* universal_kepler are C(alpha * x^2) and S(alpha * x^2) at the final x, the
\* one whose square, cube and z appear in those formulas.
C28_LagrangeFromFinalAnomaly ==
    (Ended("universal_kepler") /\ result.kind = "return")
        => /\ loc.C = stumpff_C(Mul(loc.q.alpha, Sq(loc.x)))
           /\ loc.S = stumpff_S(Mul(loc.q.alpha, Sq(loc.x)))

\* C29: for tol > 0 and max_iter >= 1 a call of universal_kepler ends with one
\* of the documented errors or returns after at least one Newton iteration,
\* the C and S it reads being bound.
C29_LoopEnteredBeforeLagrange ==
    (Ended("universal_kepler") /\ Gt(args.tol, 0) /\ args.max_iter >= 1)
        => \/ result.kind \in {"ValueError", "RuntimeError"}
           \/ /\ result.kind = "return"
              /\ loc.it >= 1
              /\ loc.bound

\* a call of universal_kepler by dt = 0 from a non-zero position, with a
\* tolerance below 1 and room for two iterations
ZeroStepCall ==
    /\ Ended("universal_kepler")
    /\ args.dt = 0
    /\ args.r0 # ZeroVec
    /\ result.kind # "ValueError"
    /\ Lt(args.tol, Scale)
    /\ args.max_iter >= 2
\* C30: universal_kepler(r0, v0, 0) returns r = r0 and v = v0 for every conic
\* type, and never a NaN state.
C30_ZeroStepIsIdentity ==
    ZeroStepCall
        => /\ result.kind = "return"
           /\ result.r = args.r0
           /\ result.v = args.v0

====
